---- MODULE Spec2Model ----
(***************************************************************************)
(* Model of the batch ingestion pipeline of ingest_linear.py:             *)
(* ingest_from_json driving insert, retry, fetch_default_playlist_id,     *)
(* get_next_position and channel_has_video against a remote catalog.      *)
(*                                                                         *)
(* Text is modelled as a sequence of tokens.  A token stands for a run of *)
(* characters that no pattern searched by the code straddles, so that the *)
(* substring tests and splits of the code are subsequence tests and       *)
(* splits here.                                                            *)
(***************************************************************************)
EXTENDS Integers, Sequences, FiniteSets, TLC

(***************************************************************************)
(* Bounds of the model.                                                    *)
(***************************************************************************)
\* entries of the batch document's "channels" list
MaxChannels == 2
\* URLs of the batch document, over all its channel entries
MaxUrls == 2
\* the attempts argument of retry, in the specification of retry alone
MaxAttempts == 3
\* characters of a video id, in the specification of the functions alone
MaxIdLen == 2
\* characters of a duration text given to the ISO-8601 parser
MaxIsoLen == 4
\* fragments of a watch page given to the duration extractors
MaxFrags == 2
\* items of a channel given to get_next_position and channel_has_video
MaxItems == 2
\* channels of the listing given to resolve_channel_by_name
MaxCandidates == 2
\* characters of a document given to the trailing-comma filter
MaxJsonLen == 4

\* the calls of fetch_default_playlist_id in one process
MaxLookups == 3

(***************************************************************************)
(* Text helpers: Python's "pat in s", s.split(pat)[0], s.split(pat)[1].   *)
(***************************************************************************)
MatchAt(s, pat, i) ==
    /\ i >= 1
    /\ i + Len(pat) - 1 <= Len(s)
    /\ \A k \in 1..Len(pat) : s[i + k - 1] = pat[k]

Contains(s, pat) == \E i \in 1..Len(s) : MatchAt(s, pat, i)

\* index of the first occurrence of pat in s, 0 when there is none
Find(s, pat) ==
    IF Contains(s, pat)
    THEN CHOOSE i \in 1..Len(s) :
            /\ MatchAt(s, pat, i)
            /\ \A j \in 1..(i - 1) : ~MatchAt(s, pat, j)
    ELSE 0

\* s.split(pat)[0]
SplitHead(s, pat) ==
    IF Find(s, pat) = 0 THEN s ELSE SubSeq(s, 1, Find(s, pat) - 1)

\* the text after the first occurrence of pat (pat occurs in s)
AfterFirst(s, pat) == SubSeq(s, Find(s, pat) + Len(pat), Len(s))

\* s.split(pat)[1] (pat occurs in s)
SplitSecond(s, pat) == SplitHead(AfterFirst(s, pat), pat)

IsSpace(t) == t \in {" ", "\t", "\r", "\n"}

IsDigit(t) == t \in {"0", "1", "2", "3", "4", "5", "6", "7", "8", "9"}

RECURSIVE LStrip(_)
LStrip(s) == IF s # <<>> /\ IsSpace(Head(s)) THEN LStrip(Tail(s)) ELSE s

RECURSIVE RStrip(_)
RStrip(s) ==
    IF s # <<>> /\ IsSpace(s[Len(s)]) THEN RStrip(SubSeq(s, 1, Len(s) - 1)) ELSE s

\* str.strip()
Strip(s) == RStrip(LStrip(s))

(***************************************************************************)
(* Optional values: <<>> is None, <<v>> is the value v.                   *)
(***************************************************************************)
None == <<>>

Some(v) == <<v>>

(***************************************************************************)
(* Identifier and name normalisation.                                      *)
(***************************************************************************)
RECURSIVE DropLeadingZeros(_)
DropLeadingZeros(s) ==
    IF Len(s) > 1 /\ Head(s) = "0" THEN DropLeadingZeros(Tail(s)) ELSE s

AllDigits(s) == s # <<>> /\ \A k \in 1..Len(s) : IsDigit(s[k])

\* _norm_id: an identifier is a token sequence, <<>> standing for None (and
\* for the empty string, which _norm_id maps to None as well)
NormId(v) ==
    LET s == Strip(v) IN
    IF s = <<>> THEN <<>>
    ELSE IF AllDigits(s) THEN DropLeadingZeros(s)
    ELSE s

\* str.casefold() on the word tokens the model uses
CaseFold(t) ==
    CASE t = "News" -> "news"
      [] t = "NEWS" -> "news"
      [] t = "World" -> "world"
      [] t = "Sports" -> "sports"
      [] t = "Dup" -> "dup"
      [] t = "DUP" -> "dup"
      [] t = "Ghost" -> "ghost"
      [] t = "Broken" -> "broken"
      [] OTHER -> t

\* re.sub(r"\s+", " ", s)
RECURSIVE CollapseSpaces(_)
CollapseSpaces(s) ==
    IF s = <<>> THEN <<>>
    ELSE IF IsSpace(Head(s)) THEN <<" ">> \o CollapseSpaces(LStrip(s))
    ELSE <<Head(s)>> \o CollapseSpaces(Tail(s))

\* _normalize_channel_name
NormalizeChannelName(name) ==
    LET c == CollapseSpaces(Strip(name)) IN
    [k \in 1..Len(c) |-> CaseFold(c[k])]

(***************************************************************************)
(* URLs and video ids.                                                     *)
(***************************************************************************)
PatShort == <<"youtu.be", "/">>

PatWatch == <<"watch", "?", "v=">>

PatEmbed == <<"/", "embed", "/">>

\* extract_video_id returns (FALSE when it raises "invalid youtube url")
ExtractOk(url) ==
    Contains(url, PatShort) \/ Contains(url, PatWatch) \/ Contains(url, PatEmbed)

\* an extraction that takes for the id only its leading letters, digits and
\* underscores
ExtractIdWordChars(url) ==
    IF Contains(url, PatShort)
    THEN SplitHead(SplitHead(SplitSecond(url, PatShort), <<"?">>), <<"-">>)
    ELSE IF Contains(url, PatWatch)
    THEN SplitHead(SplitHead(SplitSecond(url, PatWatch), <<"&">>), <<"-">>)
    ELSE SplitHead(SplitHead(SplitSecond(url, PatEmbed), <<"?">>), <<"-">>)

\* extract_video_id, where it returns
extract_video_id(url) ==
    IF Contains(url, PatShort) THEN SplitHead(SplitSecond(url, PatShort), <<"?">>)
    ELSE IF Contains(url, PatWatch) THEN SplitHead(SplitSecond(url, PatWatch), <<"&">>)
    ELSE SplitHead(SplitSecond(url, PatEmbed), <<"?">>)

\* a URL built in the embed form
NormalizeToEmbed(video_id) ==
    <<"https://www.", "youtube", ".com", "/", "embed", "/">> \o video_id

normalize_watch_url(video_id) ==
    <<"https://www.", "youtube", ".com", "/", "watch", "?", "v=">> \o video_id

\* the platform test at the head of insert
IsPlatformUrl(url) == Contains(url, <<"youtube">>) \/ Contains(url, <<"youtu.be">>)

(***************************************************************************)
(* Catalog items.  A position is absent, an integer or a string.          *)
(***************************************************************************)
PosNone == [t |-> "none", n |-> 0, s |-> <<>>]

PosInt(k) == [t |-> "int", n |-> k, s |-> <<>>]

PosStr(str) == [t |-> "str", n |-> 0, s |-> str]

Item(u, p) == [url |-> u, position |-> p]

DigitVal(t) ==
    CASE t = "0" -> 0 [] t = "1" -> 1 [] t = "2" -> 2 [] t = "3" -> 3
      [] t = "4" -> 4 [] t = "5" -> 5 [] t = "6" -> 6 [] t = "7" -> 7
      [] t = "8" -> 8 [] t = "9" -> 9

RECURSIVE DigitsVal(_)
DigitsVal(s) ==
    IF s = <<>> THEN 0
    ELSE 10 * DigitsVal(SubSeq(s, 1, Len(s) - 1)) + DigitVal(s[Len(s)])

\* int(p) succeeds
IntParses(p) == p.t = "int" \/ (p.t = "str" /\ AllDigits(Strip(p.s)))

\* int(p), where it succeeds
IntOf(p) == IF p.t = "int" THEN p.n ELSE DigitsVal(Strip(p.s))

SeqMax(q) == CHOOSE m \in {q[k] : k \in 1..Len(q)} : \A k \in 1..Len(q) : q[k] <= m

\* the positions list built by the loop of get_next_position
ParsedPositions(items) ==
    LET keep(it) == it.position.t # "none" /\ IntParses(it.position) IN
    [k \in 1..Len(SelectSeq(items, keep)) |->
        IntOf(SelectSeq(items, keep)[k].position)]

\* a next position that counts the items
NextPositionByCount(items) == Len(items) + 1

get_next_position(items) ==
    IF items = <<>> THEN 1
    ELSE IF ParsedPositions(items) = <<>> THEN Len(items) + 1
    ELSE SeqMax(ParsedPositions(items)) + 1

channel_has_video(video_id, items) ==
    \E k \in 1..Len(items) :
        LET item_url == Strip(items[k].url) IN
        /\ item_url # <<>>
        /\ IF ExtractOk(item_url)
           THEN extract_video_id(item_url) = video_id
           ELSE item_url = normalize_watch_url(video_id)

(***************************************************************************)
(* JSON values of the batch document: a tag and a token sequence (the     *)
(* elements of a list, the text of a string, the digits of a number).     *)
(***************************************************************************)
JNull == [t |-> "null", v |-> <<>>]

JStr(str) == [t |-> "str", v |-> str]

JNum(digits) == [t |-> "num", v |-> digits]

JList(elems) == [t |-> "list", v |-> elems]

\* Python truth of a JSON value: "x or []", "if not x"
Truthy(j) ==
    CASE j.t = "null" -> FALSE
      [] j.t = "num" -> DigitsVal(j.v) # 0
      [] OTHER -> j.v # <<>>

\* isinstance(x, list)
IsList(j) == j.t = "list"

(***************************************************************************)
(* The remote catalog's channel listing.                                   *)
(***************************************************************************)
Descriptor(id, number, name, has_items, its) ==
    [id |-> id, channel_number |-> number, channel_id |-> number, name |-> name,
     has_items |-> has_items, items |-> its]

\* flatten_edge_channels: the channels of all providers, in order; every
\* flattened channel shares its items list with the listing it came from
flatten_edge_channels(listing) == listing

\* the indices of the channels whose normalised name equals the needle
NameMatches(channel_name, channels) ==
    {k \in 1..Len(channels) :
        NormalizeChannelName(channels[k].name) = NormalizeChannelName(channel_name)}

\* a resolution that takes the first of several matches
ResolveFirstMatch(channel_name, channels) ==
    LET matches == NameMatches(channel_name, channels) IN
    IF NormalizeChannelName(channel_name) = <<>>
        THEN [err |-> "empty channel name", ch |-> 0, listed |-> {}]
    ELSE IF matches = {} THEN [err |-> "channel name not found", ch |-> 0, listed |-> {}]
    ELSE [err |-> "", ch |-> CHOOSE k \in matches : \A j \in matches : k <= j,
          listed |-> {}]

\* resolve_channel_by_name: the error raised ("" when it returns), the index
\* of the channel returned, and the channels the ambiguity error lists
resolve_channel_by_name(channel_name, channels) ==
    LET matches == NameMatches(channel_name, channels) IN
    IF NormalizeChannelName(channel_name) = <<>>
        THEN [err |-> "empty channel name", ch |-> 0, listed |-> {}]
    ELSE IF matches = {} THEN [err |-> "channel name not found", ch |-> 0, listed |-> {}]
    ELSE IF Cardinality(matches) > 1
        THEN [err |-> "ambiguous channel name", ch |-> 0, listed |-> matches]
    ELSE [err |-> "", ch |-> CHOOSE k \in matches : TRUE, listed |-> {}]

\* get_channel_items over the listing the catalog returns (<<>> when the
\* request fails): the items of the first channel one of whose identifiers
\* normalises to the target
get_channel_items(cid, listing) ==
    LET hit(k) == NormId(cid) \in {NormId(listing[k].id),
                                   NormId(listing[k].channel_number),
                                   NormId(listing[k].channel_id)}
        hits == {k \in 1..Len(listing) : hit(k)}
    IN  IF hits = {} THEN <<>>
        ELSE LET first == CHOOSE k \in hits : \A j \in hits : k <= j IN
             IF listing[first].has_items THEN listing[first].items ELSE <<>>

(***************************************************************************)
(* The inputs the model draws from.                                        *)
(***************************************************************************)
UWatchA == <<"https://www.", "youtube", ".com", "/", "watch", "?", "v=", "a">>

UEmbedB == <<"https://www.", "youtube", ".com", "/", "embed", "/", "b", "?", "t=1">>

ULiveA == <<"https://www.", "youtube", ".com", "/", "live", "/", "a">>

UVimeo == <<"https://", "vimeo", ".com", "/", "a">>

Urls == {UWatchA, UEmbedB, ULiveA, UVimeo}

\* an element of a "urls" list that the loop has not reached: the document
\* fixes the length of the list, and each element is read when the loop gets
\* to it
Unread == "unread"

\* the "urls" member of a channel entry: a list of at most n URLs, or absent,
\* or a value that is no list
UrlsChoices(n) ==
    {JList([i \in 1..k |-> Unread]) : k \in 0..n}
        \cup {JNull, JStr(<<>>), JStr(<<"u1">>), JNum(<<"0">>)}

\* the "name" member of a channel entry
NameChoices ==
    {JNull, JStr(<<" ">>),
     JStr(<<" ", "world", "\t", " ", "NEWS">>),
     JStr(<<"Sports">>), JStr(<<"Ghost">>), JStr(<<"dup">>), JStr(<<"Broken">>)}

\* the channel entries whose list holds at most n URLs
ChannelSpecs(n) == {[name |-> nm, urls |-> u] : nm \in NameChoices, u \in UrlsChoices(n)}

\* the batch document's "channels" member: a list, whose entries are read as
\* the loop reaches them, or absent, or a value that is no list
DocChoices == {"list", "null", "obj"}

\* the items the catalog lists for the channel "World News" when the run starts
Snapshots ==
    { <<Item(<<"https://www.", "youtube", ".com", "/", "embed", "/", "a">>, PosInt(5)),
        Item(<<>>, PosStr(<<"b", "a", "d">>))>> }

\* the listing of the catalog: a linear channel with its items, a channel
\* listed without items, two channels sharing a normalised name, and a
\* channel without internal id
CatalogListing(snap) ==
    << Descriptor(<<"1">>, <<"1", "1">>, <<"World", " ", "News">>, TRUE, snap),
       Descriptor(<<"2">>, <<"1", "2">>, <<"Sports">>, FALSE, <<>>),
       Descriptor(<<"3">>, <<"1", "3">>, <<"Dup">>, TRUE, <<>>),
       Descriptor(<<"4">>, <<"1", "4">>, <<"DUP", " ">>, TRUE, <<>>),
       Descriptor(<<>>, <<"1", "5">>, <<"Broken">>, TRUE, <<>>) >>

\* every channel_id a run can compute
ChannelIds ==
    LET l == CatalogListing(<<>>) IN
    {NormId(l[k].id) : k \in 1..Len(l)} \cup {NormId(l[k].channel_number) : k \in 1..Len(l)}

\* the duration a metadata fetch finds
DurationChoices == {212}

\* the failures of fetch_youtube_meta
MetaErrors == {"duration not found"}

\* the failures of the function given to retry, in the specification of retry
\* alone
FnErrors == {"E1", "E2", "E3"}

CallOk(d) == [ok |-> TRUE, duration |-> d, err |-> ""]

CallFails(e) == [ok |-> FALSE, duration |-> 0, err |-> e]

CallOutcomes(errs) == {CallOk(d) : d \in DurationChoices} \cup {CallFails(e) : e \in errs}

\* what the successive calls of the function given to retry would end with:
\* one outcome per call; the outcomes past the first success are never
\* observed and are fixed to it
FnRuns(n, errs) ==
    {r \in [1..n -> CallOutcomes(errs)] :
        \A i \in 1..n : \A j \in 1..n : (i < j /\ r[i].ok) => r[j] = r[i]}

\* outcomes of the item-create request: accepted; refused with a non-2xx
\* answer; applied by the catalog but lost on the way back (transport error)
PostOutcomes == {"ok", "non-2xx", "applied, answer lost"}

\* outcomes of the administrative-page request
PlaylistOutcomes ==
    {[kind |-> k, value |-> <<>>] :
        k \in {"transport error", "timeout", "non-2xx", "no select", "no option"}}
      \cup {[kind |-> k, value |-> <<"0", "7">>] : k \in {"selected option", "first option"}}

(***************************************************************************)
(* State.                                                                  *)
(***************************************************************************)
VARIABLES
    \* inputs of the run
    dry_run, continue_on_error, delay_seconds, channel_id_mode, doc, snapshot,
    \* ingest_from_json: the control point, the flattened listing, the number
    \* of channel entries begun, the current entry, the URLs of the entry not
    \* yet iterated, the number of those iterated, the resolved channel
    pc, channels_flat, idx, ch_spec, urls, u_idx, ch, channel_id, playlist_id,
    items, pos, url, did_insert, error,
    \* the process-wide cache of fetch_default_playlist_id
    playlist_cache,
    \* retry: its attempts argument and, in the specification of retry alone,
    \* the outcomes of the calls of its function
    attempts, fn_run,
    \* what the last URL iteration did: the video id, the result of retry, the
    \* payload, the steps performed in order, the outcomes of the calls made
    video_id, meta, payload, steps, call_log,
    \* what the run did so far: the <<channel_id, video id>> pairs the catalog
    \* accepted, the position of the last successful insert per channel, the
    \* URLs drawn for the entries begun, the requests made outside insert
    accepted, last_ins, n_seen, listing_reads, playlist_requests,
    \* in the specification of the functions alone: the function called, its
    \* argument and what it returned
    fn, fn_arg, fn_out

inputVars == <<dry_run, continue_on_error, delay_seconds, channel_id_mode, doc, snapshot>>

channelVars == <<idx, ch_spec, ch, channel_id, playlist_id, n_seen>>

itemVars == <<items, channels_flat, pos, last_ins>>

retryVars == <<attempts, fn_run, fn, fn_arg, fn_out>>

urlVars == <<urls, u_idx, url, did_insert, video_id, meta, payload, steps, call_log,
             accepted>>

envVars == <<playlist_cache, playlist_requests, listing_reads>>

vars == <<inputVars, channelVars, itemVars, retryVars, urlVars, envVars, pc, error>>

NoError == [tier |-> "", msg |-> ""]

NoPayload == [channel_id |-> <<>>, position |-> 0, url |-> <<>>, duration |-> 0,
              playlist_id |-> None]

NoSpec == [name |-> JNull, urls |-> JNull]

\* retry's default
DefaultAttempts == 3

\* --delay-seconds default, and a run without delay
DelayChoices == {0, 3}

\* --channel-id-mode default
ModeChoices == {"id"}

\* no function is called alone
NoCall ==
    /\ fn = ""
    /\ fn_arg = <<>>
    /\ fn_out = <<>>

\* the state of the process before anything ran
Fresh ==
    /\ channels_flat = <<>>
    /\ idx = 0
    /\ ch_spec = NoSpec
    /\ urls = <<>>
    /\ u_idx = 0
    /\ ch = 0
    /\ channel_id = <<>>
    /\ playlist_id = None
    /\ items = <<>>
    /\ pos = 0
    /\ url = <<>>
    /\ did_insert = FALSE
    /\ error = NoError
    /\ playlist_cache = <<>>
    /\ video_id = <<>>
    /\ meta = None
    /\ payload = NoPayload
    /\ steps = <<>>
    /\ call_log = <<>>
    /\ accepted = {}
    /\ last_ins = [c \in ChannelIds |-> 0]
    /\ n_seen = 0
    /\ listing_reads = 0
    /\ playlist_requests = 0

Init ==
    /\ dry_run \in BOOLEAN
    /\ continue_on_error \in BOOLEAN
    /\ delay_seconds \in DelayChoices
    /\ channel_id_mode \in ModeChoices
    /\ doc \in DocChoices
    /\ snapshot \in Snapshots
    /\ pc = "load"
    /\ attempts = DefaultAttempts
    /\ fn_run = <<>>
    /\ NoCall
    /\ Fresh

(***************************************************************************)
(* retry(fn, attempts).  run[k] is what the k-th call of fn ends with.    *)
(***************************************************************************)
\* the test "i == attempts": true of no iteration of the loop
LastAttemptLate(i, n) == i = n

\* "if i == attempts - 1: raise"
LastAttempt(i, n) == i = n - 1

\* the loop of retry from its iteration i: how it ends (returned, raised, or
\* the loop ran out and None is returned), the value or the error, the
\* outcomes of the calls made and the calls and sleeps in order
RECURSIVE RetryFrom(_, _, _)
RetryFrom(run, i, n) ==
    IF i >= n
    THEN [status |-> "exhausted", value |-> 0, err |-> "", calls |-> <<>>, events |-> <<>>]
    ELSE IF run[i + 1].ok
    THEN [status |-> "returned", value |-> run[i + 1].duration, err |-> "",
          calls |-> <<run[i + 1]>>, events |-> <<"call">>]
    ELSE IF LastAttempt(i, n)
    THEN [status |-> "raised", value |-> 0, err |-> run[i + 1].err,
          calls |-> <<run[i + 1]>>, events |-> <<"call">>]
    ELSE LET rest == RetryFrom(run, i + 1, n) IN
         [rest EXCEPT !.calls = <<run[i + 1]>> \o rest.calls,
                      !.events = <<"call", "retry sleep">> \o rest.events]

retry(run, n) == RetryFrom(run, 0, n)

(***************************************************************************)
(* insert.                                                                 *)
(***************************************************************************)
\* an insert that never returns before the request
SkipsWriteNever(dry) == FALSE

\* "if dry_run: return True", before the request
SkipsWrite(dry) == dry

\* an item-create request sent again after a failure
ItemCreateRetried(po) ==
    [steps |-> IF po = "ok" THEN <<"post">> ELSE <<"post", "post">>,
     ok |-> po = "ok", applied |-> po # "non-2xx",
     err |-> IF po = "non-2xx" THEN "remote error" ELSE "transport error"]

\* r = requests.post(endpoint, ...); r.raise_for_status(): one request; what
\* it did under the outcome po
ItemCreate(po) ==
    [steps |-> <<"post">>, ok |-> po = "ok", applied |-> po # "non-2xx",
     err |-> IF po = "non-2xx" THEN "remote error" ELSE "transport error"]

\* the payload built by insert
BuildPayload(cid, p, vid, d, pl) ==
    [channel_id |-> cid, position |-> p, url |-> normalize_watch_url(vid),
     duration |-> d, playlist_id |-> pl]

InsertRaises(msg, vid, st, rt, pay, posted, applied) ==
    [ret |-> "raise", err |-> msg, video_id |-> vid, steps |-> st,
     calls |-> rt.calls, meta |-> IF rt.status = "returned" THEN Some(rt.value) ELSE None,
     payload |-> pay, posted |-> posted, applied |-> applied]

InsertReturns(b, vid, st, rt, pay, posted) ==
    [ret |-> IF b THEN "True" ELSE "False", err |-> "", video_id |-> vid, steps |-> st,
     calls |-> rt.calls, meta |-> IF rt.status = "returned" THEN Some(rt.value) ELSE None,
     payload |-> pay, posted |-> posted, applied |-> posted]

\* the steps of the retry-wrapped metadata fetch
MetaSteps(rt) ==
    [k \in 1..Len(rt.events) |-> IF rt.events[k] = "call" THEN "fetch meta" ELSE "retry sleep"]

NoRetry == [status |-> "", value |-> 0, err |-> "", calls |-> <<>>, events |-> <<>>]

\* insert(channel_id, url, items_cache=its, next_position=next_position,
\* dry_run=dry, playlist_id=pl), with retry's attempts n, the outcomes run of
\* the metadata fetches and the outcome po of the item-create request
insert(cid, u, its, next_position, dry, pl, n, run, po) ==
    LET vid == extract_video_id(u)
        rt == retry(run, n)
        position == IF next_position # None THEN next_position[1]
                    ELSE get_next_position(its)
        pay == BuildPayload(cid, position, vid, rt.value, pl)
        s3 == <<"check platform", "extract id", "dedup">>
    IN  IF ~IsPlatformUrl(u)
            THEN InsertRaises("only youtube supported", <<>>, <<"check platform">>,
                              NoRetry, NoPayload, FALSE, FALSE)
        ELSE IF ~ExtractOk(u)
            THEN InsertRaises("invalid youtube url", <<>>,
                              <<"check platform", "extract id">>,
                              NoRetry, NoPayload, FALSE, FALSE)
        ELSE IF channel_has_video(vid, its)
            THEN InsertReturns(FALSE, vid, s3, NoRetry, NoPayload, FALSE)
        ELSE IF rt.status = "raised"
            THEN InsertRaises(rt.err, vid, s3 \o MetaSteps(rt), rt, NoPayload, FALSE, FALSE)
        ELSE IF rt.status = "exhausted"
            THEN InsertRaises("meta is None", vid, s3 \o MetaSteps(rt), rt, NoPayload,
                              FALSE, FALSE)
        ELSE IF SkipsWrite(dry)
            THEN InsertReturns(TRUE, vid, s3 \o MetaSteps(rt) \o <<"payload">>, rt, pay, FALSE)
        ELSE IF ItemCreate(po).ok
            THEN InsertReturns(TRUE, vid,
                               s3 \o MetaSteps(rt) \o <<"payload">> \o ItemCreate(po).steps
                                  \o <<"read listing">>,
                               rt, pay, TRUE)
        ELSE InsertRaises(ItemCreate(po).err, vid,
                          s3 \o MetaSteps(rt) \o <<"payload">> \o ItemCreate(po).steps,
                          rt, pay, TRUE, ItemCreate(po).applied)

(***************************************************************************)
(* ingest_from_json: loading, listing, and the head of the channel loop.  *)
(***************************************************************************)
StructuralError(msg) == [tier |-> "structural", msg |-> msg]

ItemError(msg) == [tier |-> "item", msg |-> msg]

\* data = load_channel_list(path); "channels" must be a list
Load ==
    /\ pc = "load"
    /\ IF doc # "list"
       THEN pc' = "aborted" /\ error' = StructuralError("JSON must contain channels")
       ELSE pc' = "edge" /\ UNCHANGED error
    /\ UNCHANGED <<inputVars, channelVars, itemVars, retryVars, urlVars, envVars>>

\* edge_payload = fetch_edge_channels(); channels_flat = flatten_edge_channels(...)
FetchEdgeChannels ==
    /\ pc = "edge"
    /\ listing_reads' = listing_reads + 1
    /\ \E ok \in BOOLEAN :
        IF ok
        THEN /\ channels_flat' = flatten_edge_channels(CatalogListing(snapshot))
             /\ pc' = "channel"
             /\ UNCHANGED error
        ELSE /\ pc' = "aborted"
             /\ error' = StructuralError("channel listing failed")
             /\ UNCHANGED channels_flat
    /\ UNCHANGED <<inputVars, channelVars, items, pos, last_ins, retryVars, urlVars,
                   playlist_cache, playlist_requests>>

\* urls = (ch_spec or {}).get("urls") or []
EffectiveUrls(spec) == IF Truthy(spec.urls) THEN spec.urls ELSE JList(<<>>)

\* the identifier sent as channel_id, by channel_id_mode
ComputeChannelId(d, mode) ==
    IF mode \in {"number", "channel_number"}
    THEN NormId(IF d.channel_number # <<>> THEN d.channel_number ELSE d.channel_id)
    ELSE NormId(d.id)

\* the checks at the head of the channel loop, in the order of the code: the
\* error raised ("" when none), the channel resolved and the channel_id
ChannelHead(spec, channels, mode) ==
    LET r == resolve_channel_by_name(spec.name.v, channels)
        d == channels[r.ch]
        number == IF d.channel_number # <<>> THEN d.channel_number ELSE d.channel_id
    IN  IF ~Truthy(spec.name)
            THEN [err |-> "missing name", ch |-> 0, channel_id |-> <<>>]
        ELSE IF ~IsList(EffectiveUrls(spec))
            THEN [err |-> "urls must be a list", ch |-> 0, channel_id |-> <<>>]
        ELSE IF r.err # ""
            THEN [err |-> r.err, ch |-> 0, channel_id |-> <<>>]
        ELSE IF d.id = <<>> /\ number = <<>>
            THEN [err |-> "missing id in payload", ch |-> 0, channel_id |-> <<>>]
        ELSE IF ComputeChannelId(d, mode) = <<>>
            THEN [err |-> "cannot compute channel_id", ch |-> 0, channel_id |-> <<>>]
        ELSE [err |-> "", ch |-> r.ch, channel_id |-> ComputeChannelId(d, mode)]

\* what fetch_default_playlist_id returns for an outcome of the
\* administrative-page request
PlaylistResult(o) ==
    IF o.kind \in {"selected option", "first option"} THEN NormId(o.value) ELSE None

\* fetch_default_playlist_id without its "except Exception: pass": the
\* exceptions of requests.get leave the function
PlaylistLookupUnguarded(cid, cache, o) ==
    [value |-> PlaylistResult(o), cache |-> (NormId(cid) :> PlaylistResult(o)) @@ cache,
     requested |-> TRUE, raised |-> o.kind \in {"transport error", "timeout"}]

\* a lookup whose cache is keyed by the identifier as given
PlaylistLookupRawKey(cid, cache, o) ==
    IF NormId(cid) = <<>>
        THEN [value |-> None, cache |-> cache, requested |-> FALSE, raised |-> FALSE]
    ELSE IF cid \in DOMAIN cache
        THEN [value |-> cache[cid], cache |-> cache, requested |-> FALSE, raised |-> FALSE]
    ELSE [value |-> PlaylistResult(o), cache |-> (cid :> PlaylistResult(o)) @@ cache,
          requested |-> TRUE, raised |-> FALSE]

\* fetch_default_playlist_id(cid) under the outcome o of the request it may
\* make: the value returned, the cache afterwards, whether it made the
\* request, and whether an exception left it (the request and the parsing
\* are inside "try ... except Exception: pass")
fetch_default_playlist_id(cid, cache, o) ==
    LET key == NormId(cid) IN
    IF key = <<>>
        THEN [value |-> None, cache |-> cache, requested |-> FALSE, raised |-> FALSE]
    ELSE IF key \in DOMAIN cache
        THEN [value |-> cache[key], cache |-> cache, requested |-> FALSE, raised |-> FALSE]
    ELSE [value |-> PlaylistResult(o), cache |-> (key :> PlaylistResult(o)) @@ cache,
          requested |-> TRUE, raised |-> FALSE]

\* one canonical outcome where the request is not made
PlaylistOutcomesFor(cid, cache) ==
    IF NormId(cid) # <<>> /\ NormId(cid) \notin DOMAIN cache
    THEN PlaylistOutcomes
    ELSE {CHOOSE o \in PlaylistOutcomes : TRUE}

\* the next entry of "channels": validation and resolution, the playlist
\* lookup, the items of the channel and the first position
BeginChannel ==
    /\ pc = "channel"
    /\ idx < MaxChannels
    /\ idx' = idx + 1
    /\ \E spec \in ChannelSpecs(MaxUrls - n_seen) :
        LET h == ChannelHead(spec, channels_flat, channel_id_mode) IN
        /\ ch_spec' = spec
        /\ n_seen' = n_seen + (IF IsList(spec.urls) THEN Len(spec.urls.v) ELSE 0)
        /\ urls' = IF IsList(EffectiveUrls(spec)) THEN EffectiveUrls(spec).v ELSE <<>>
        /\ IF h.err # ""
           THEN /\ pc' = "aborted"
                /\ error' = StructuralError(h.err)
                /\ UNCHANGED <<ch, channel_id, playlist_id, playlist_cache,
                               playlist_requests, items, pos, listing_reads>>
           ELSE /\ ch' = h.ch
                /\ channel_id' = h.channel_id
                /\ \E o \in PlaylistOutcomesFor(h.channel_id, playlist_cache) :
                   \E p \in {fetch_default_playlist_id(h.channel_id, playlist_cache, o)} :
                    /\ playlist_requests' = playlist_requests + (IF p.requested THEN 1 ELSE 0)
                    /\ IF p.raised
                       THEN /\ pc' = "aborted"
                            /\ error' = StructuralError("playlist lookup raised")
                            /\ UNCHANGED <<playlist_id, playlist_cache, items, pos,
                                           listing_reads>>
                       ELSE /\ pc' = "url"
                            /\ UNCHANGED error
                            /\ playlist_id' = p.value
                            /\ playlist_cache' = p.cache
                            /\ IF channels_flat[h.ch].has_items
                               THEN /\ items' = channels_flat[h.ch].items
                                    /\ UNCHANGED listing_reads
                               ELSE /\ listing_reads' = listing_reads + 1
                                    /\ \E ok \in BOOLEAN :
                                        items' =
                                          IF ok
                                          THEN get_channel_items(h.channel_id,
                                                                 CatalogListing(snapshot))
                                          ELSE <<>>
                            /\ pos' = get_next_position(items')
    /\ u_idx' = 0
    /\ url' = <<>>
    /\ did_insert' = FALSE
    /\ video_id' = <<>>
    /\ meta' = None
    /\ payload' = NoPayload
    /\ steps' = <<>>
    /\ call_log' = <<>>
    /\ UNCHANGED <<inputVars, channels_flat, last_ins, retryVars, accepted>>

\* the "channels" list is exhausted: ingest_from_json returns
Finish ==
    /\ pc = "channel"
    /\ pc' = "done"
    /\ UNCHANGED <<inputVars, channelVars, itemVars, retryVars, urlVars, envVars, error>>

(***************************************************************************)
(* The URL loop of ingest_from_json.                                       *)
(***************************************************************************)
\* an except clause that never re-raises
ReraisesNever(coe) == FALSE

\* an except clause that always re-raises
ReraisesAlways(coe) == TRUE

\* "if not continue_on_error: raise" of the except clause
Reraises(coe) == ~coe

\* a delay slept after every URL, inserted or not
ShouldSleepAlways(d, delay) == delay # 0 /\ delay > 0

\* "if did_insert and delay_seconds and delay_seconds > 0"
ShouldSleep(d, delay) == d /\ delay # 0 /\ delay > 0

\* "pos += 1"
NextPos(p) == p + 1

\* the shadow item appended after an insert
ShadowItem(u, p) == Item(normalize_watch_url(extract_video_id(u)), PosInt(p))

\* the outcomes of the requests one iteration can make; one canonical outcome
\* stands for those of a request that is not made
DefaultRun(n) == [k \in 1..n |-> CallOk(CHOOSE d \in DurationChoices : TRUE)]

RunsFor(r0, n) == IF r0.calls = <<>> THEN {DefaultRun(n)} ELSE FnRuns(n, MetaErrors)

PostOutcomesFor(r1) == IF r1.posted THEN PostOutcomes ELSE {"ok"}

\* one iteration of the URL loop: insert is called for the next URL; after an
\* insert the shadow list and the position counter advance; an exception is
\* reported and re-raised or not; the delay is slept or not
ProcessUrl ==
    /\ pc = "url"
    /\ u_idx < Len(urls)
    /\ \E u \in Urls :
       LET r0 == insert(channel_id, u, items, Some(pos), dry_run, playlist_id,
                        attempts, DefaultRun(attempts), "ok")
       IN
       \E run \in RunsFor(r0, attempts) :
       \E po \in PostOutcomesFor(insert(channel_id, u, items, Some(pos), dry_run,
                                        playlist_id, attempts, run, "ok")) :
       \E r \in {insert(channel_id, u, items, Some(pos), dry_run, playlist_id,
                        attempts, run, po)} :
         LET d == r.ret = "True" IN
         /\ url' = u
         /\ video_id' = r.video_id
         /\ meta' = r.meta
         /\ payload' = r.payload
         /\ call_log' = r.calls
         /\ accepted' = IF r.applied
                        THEN accepted \cup {<<r.payload.channel_id, r.video_id>>}
                        ELSE accepted
         /\ did_insert' = d
         /\ IF r.ret = "raise"
            THEN /\ error' = ItemError(r.err)
                 /\ steps' = Append(r.steps, "report error")
                        \o (IF ~Reraises(continue_on_error) /\ ShouldSleep(d, delay_seconds)
                            THEN <<"delay sleep">> ELSE <<>>)
                 /\ pc' = IF Reraises(continue_on_error) THEN "aborted" ELSE "url"
                 /\ UNCHANGED itemVars
            ELSE /\ error' = NoError
                 /\ pc' = "url"
                 /\ steps' = r.steps
                        \o (IF d THEN <<"shadow append">> ELSE <<>>)
                        \o (IF ShouldSleep(d, delay_seconds) THEN <<"delay sleep">> ELSE <<>>)
                 /\ IF d
                    THEN /\ items' = IF ExtractOk(u) THEN Append(items, ShadowItem(u, pos))
                                     ELSE items
                         /\ channels_flat' =
                              IF channels_flat[ch].has_items
                              THEN [channels_flat EXCEPT ![ch].items = items']
                              ELSE channels_flat
                         /\ pos' = NextPos(pos)
                         /\ last_ins' = [last_ins EXCEPT ![channel_id] = r.payload.position]
                    ELSE UNCHANGED itemVars
    /\ u_idx' = u_idx + 1
    /\ UNCHANGED <<inputVars, channelVars, retryVars, envVars, urls>>

\* the URLs of the channel are exhausted: on to the next entry; what the
\* loop left in its locals is read by nothing after it
EndChannel ==
    /\ pc = "url"
    /\ u_idx = Len(urls)
    /\ pc' = "channel"
    /\ url' = <<>>
    /\ did_insert' = FALSE
    /\ video_id' = <<>>
    /\ meta' = None
    /\ payload' = NoPayload
    /\ steps' = <<>>
    /\ call_log' = <<>>
    /\ error' = NoError
    /\ ch_spec' = NoSpec
    /\ urls' = <<>>
    /\ u_idx' = 0
    /\ ch' = 0
    /\ channel_id' = <<>>
    /\ playlist_id' = None
    /\ items' = <<>>
    /\ pos' = 0
    /\ UNCHANGED <<inputVars, idx, n_seen, channels_flat, last_ins, retryVars, accepted,
                   envVars>>

Next ==
    \/ Load
    \/ FetchEdgeChannels
    \/ BeginChannel
    \/ Finish
    \/ ProcessUrl
    \/ EndChannel

Spec == Init /\ [][Next]_vars

(***************************************************************************)
(* retry alone: one call of retry(fn, attempts) with attempts >= 1, over   *)
(* every course the calls of fn can take.                                  *)
(***************************************************************************)
InitRetry ==
    /\ dry_run = FALSE
    /\ continue_on_error = FALSE
    /\ delay_seconds = 0
    /\ channel_id_mode = "id"
    /\ doc = "list"
    /\ snapshot = <<>>
    /\ pc = "retry"
    /\ attempts \in 1..MaxAttempts
    /\ fn_run \in FnRuns(attempts, FnErrors)
    /\ NoCall
    /\ Fresh

\* result = retry(fn, attempts): the value returned or the exception raised,
\* the outcomes of the calls made, the calls and sleeps in order
CallRetry ==
    /\ pc = "retry"
    /\ \E rt \in {retry(fn_run, attempts)} :
        /\ pc' = rt.status
        /\ meta' = IF rt.status = "returned" THEN Some(rt.value) ELSE None
        /\ error' = IF rt.status = "raised" THEN ItemError(rt.err) ELSE NoError
        /\ call_log' = rt.calls
        /\ steps' = rt.events
    /\ UNCHANGED <<inputVars, channelVars, itemVars, retryVars, urls, u_idx, url, did_insert,
                   video_id, payload, accepted, envVars>>

NextRetry == CallRetry

SpecRetry == InitRetry /\ [][NextRetry]_vars

(***************************************************************************)
(* The functions alone: one call of one function on one argument.         *)
(***************************************************************************)
\* what a call of a function alone leaves as it is
fnFrame == <<inputVars, channelVars, itemVars, attempts, fn_run, fn, fn_arg, urlVars, envVars>>

FnError(msg) == [tier |-> "function", msg |-> msg]

\* the call returns v
FnReturns(v) ==
    /\ pc' = "returned"
    /\ fn_out' = v
    /\ error' = NoError
    /\ UNCHANGED fnFrame

\* the call raises
FnRaises(msg) ==
    /\ pc' = "raised"
    /\ fn_out' = <<>>
    /\ error' = FnError(msg)
    /\ UNCHANGED fnFrame

\* the function f is called
Calls(f) == pc = "call" /\ fn = f

\* the call of f is over
Called(f) == fn = f /\ pc \in {"returned", "raised"}

(***************************************************************************)
(* extract_video_id and normalize_watch_url on the URL shapes of a video  *)
(* id.  An id is a sequence of id characters.                              *)
(***************************************************************************)
\* the video ids of at most MaxIdLen characters: letters, digits, "_", "-"
VideoIds == UNION {[1..k -> {"a", "B", "7", "_", "-"}] : k \in 1..MaxIdLen}

UrlShapes == {"short", "watch", "embed", "live", "other"}

\* the URL of the given shape for the video id, bare or followed by a further
\* parameter
ShapeUrl(shape, id, more) ==
    CASE shape = "short" ->
            <<"https://", "youtu.be", "/">> \o id \o (IF more THEN <<"?", "t=1">> ELSE <<>>)
      [] shape = "watch" ->
            <<"https://www.", "youtube", ".com", "/", "watch", "?", "v=">> \o id
                \o (IF more THEN <<"&", "t=1">> ELSE <<>>)
      [] shape = "embed" ->
            <<"https://www.", "youtube", ".com", "/", "embed", "/">> \o id
                \o (IF more THEN <<"?", "t=1">> ELSE <<>>)
      [] shape = "live" ->
            <<"https://www.", "youtube", ".com", "/", "live", "/">> \o id
                \o (IF more THEN <<"?", "t=1">> ELSE <<>>)
      [] OTHER ->
            <<"https://www.", "youtube", ".com", "/", "channel", "/">> \o id
                \o (IF more THEN <<"?", "t=1">> ELSE <<>>)

\* extract_video_id(url)
CallExtractVideoId ==
    /\ Calls("extract_video_id")
    /\ LET u == ShapeUrl(fn_arg.shape, fn_arg.id, fn_arg.more) IN
       IF ExtractOk(u)
       THEN FnReturns(extract_video_id(u))
       ELSE FnRaises("invalid youtube url")

\* normalize_watch_url(video_id)
CallNormalizeWatchUrl ==
    /\ Calls("normalize_watch_url")
    /\ FnReturns(normalize_watch_url(fn_arg))

(***************************************************************************)
(* The ISO-8601 duration parsers.  A duration text is a sequence of       *)
(* characters.                                                             *)
(***************************************************************************)
\* the length of the run of digits of s that starts at i
RECURSIVE DigitRun(_, _)
DigitRun(s, i) == IF i <= Len(s) /\ IsDigit(s[i]) THEN 1 + DigitRun(s, i + 1) ELSE 0

\* (?:(\d+)X)? tried at position i: the number captured (0 when the group
\* does not take part) and the position after it
IsoGroup(s, i, letter) ==
    LET n == DigitRun(s, i) IN
    IF n > 0 /\ i + n <= Len(s) /\ s[i + n] = letter
    THEN [val |-> DigitsVal(SubSeq(s, i, i + n - 1)), next |-> i + n + 1]
    ELSE [val |-> 0, next |-> i]

\* re.fullmatch(r"PT(?:(\d+)H)?(?:(\d+)M)?(?:(\d+)S)?", s)
IsoMatch(s) ==
    LET gh == IsoGroup(s, 3, "H")
        gm == IsoGroup(s, gh.next, "M")
        gs == IsoGroup(s, gm.next, "S")
    IN  IF Len(s) >= 2 /\ s[1] = "P" /\ s[2] = "T" /\ gs.next = Len(s) + 1
        THEN [ok |-> TRUE, h |-> gh.val, m |-> gm.val, s |-> gs.val]
        ELSE [ok |-> FALSE, h |-> 0, m |-> 0, s |-> 0]

\* a total that counts an hour as sixty seconds
IsoTotalShortHours(h, m, s) == h * 60 + m * 60 + s

\* horas * 3600 + minutos * 60 + segundos
IsoTotal(h, m, s) == h * 3600 + m * 60 + s

\* youtube_duration.parse_iso8601_duration(valor)
parse_iso8601_duration(valor) ==
    LET r == IsoMatch(valor) IN
    IF r.ok THEN Some(IsoTotal(r.h, r.m, r.s)) ELSE None

\* ingest_linear._parse_iso8601_duration_to_seconds(value): the text is
\* stripped first and a total of zero is no result
parse_iso8601_duration_to_seconds(value) ==
    LET r == IsoMatch(Strip(value)) IN
    IF r.ok /\ IsoTotal(r.h, r.m, r.s) > 0 THEN Some(IsoTotal(r.h, r.m, r.s)) ELSE None

\* every text of at most MaxIsoLen characters over P, T, H, M, S and a digit;
\* the texts of the tests; texts that differ from a duration in one way
IsoTexts ==
    UNION {[1..k -> {"P", "T", "1", "H", "M", "S"}] : k \in 0..MaxIsoLen}
      \cup
    { <<"P", "T", "1", "H", "2", "M", "3", "S">>,
      <<"P", "T", "4", "M", "7", "S">>,
      <<"I", "N", "V", "A", "L", "I", "D">>,
      <<"P", "T", "1", "2", "M", "0", "7", "S">>,
      <<"P", "T", "0", "S">>,
      <<" ", "P", "T", "1", "S">>,
      <<"P", "T", "1", "S", "\n">>,
      <<"p", "t", "1", "s">>,
      <<"P", "T", "1", "M", "1", "H">>,
      <<"P", "T", "1", "H", "1", "H">>,
      <<"P", "T", "1", ".", "5", "S">>,
      <<"P", "1", "D", "T", "1", "H">>,
      <<"-", "P", "T", "1", "S">> }

CallParseIso8601Duration ==
    /\ Calls("parse_iso8601_duration")
    /\ FnReturns(parse_iso8601_duration(fn_arg))

(***************************************************************************)
(* The duration extractors on a watch page.  A page is a sequence of      *)
(* tokens: the field names the patterns search for are one token each,    *)
(* numbers and duration texts are sequences of characters.                *)
(***************************************************************************)
Quote == "\""

LSKey == "\"lengthSeconds\":"

MsKey == "\"approxDurationMs\":"

DurKey == "\"duration\":"

ItemKey == "itemprop=\"duration\""

ContentKey == "content="

\* the tokens that begin with a double quote
ClosesQuote(t) == t \in {Quote, LSKey, MsKey, DurKey}

\* re.search tries the positions from the left: the first of the positions
\* S at which the pattern matches, 0 when there is none
First(S) == IF S = {} THEN 0 ELSE CHOOSE i \in S : \A j \in S : i <= j

\* the length of the run of spaces of s that starts at i
RECURSIVE SpaceRun(_, _)
SpaceRun(s, i) == IF i <= Len(s) /\ IsSpace(s[i]) THEN 1 + SpaceRun(s, i + 1) ELSE 0

\* [^"]+: the length of the run of tokens without a double quote that starts
\* at i
RECURSIVE NonQuoteRun(_, _)
NonQuoteRun(s, i) ==
    IF i <= Len(s) /\ ~ClosesQuote(s[i]) /\ s[i] # ItemKey
    THEN 1 + NonQuoteRun(s, i + 1)
    ELSE 0

\* re.search(key"(\d+)", s): the digits captured, None when nothing matches
SearchQuotedNumber(s, key) ==
    LET M(p) == /\ p + 1 <= Len(s)
                /\ s[p] = key
                /\ s[p + 1] = Quote
                /\ DigitRun(s, p + 2) > 0
                /\ p + 2 + DigitRun(s, p + 2) <= Len(s)
                /\ ClosesQuote(s[p + 2 + DigitRun(s, p + 2)])
        i == First({p \in 1..Len(s) : M(p)})
    IN  IF i = 0 THEN None ELSE Some(SubSeq(s, i + 2, i + 1 + DigitRun(s, i + 2)))

\* re.search(r'"lengthSeconds":\s*(\d+)', s)
SearchBareNumber(s, key) ==
    LET M(p) == s[p] = key /\ DigitRun(s, p + 1 + SpaceRun(s, p + 1)) > 0
        i == First({p \in 1..Len(s) : M(p)})
        j == i + 1 + SpaceRun(s, i + 1)
    IN  IF i = 0 THEN None ELSE Some(SubSeq(s, j, j + DigitRun(s, j) - 1))

\* "(PT[^"]+)" matches at i
QuotedIsoAt(s, i) ==
    /\ i + 2 <= Len(s)
    /\ s[i] = Quote
    /\ s[i + 1] = "P"
    /\ s[i + 2] = "T"
    /\ NonQuoteRun(s, i + 3) > 0
    /\ i + 3 + NonQuoteRun(s, i + 3) <= Len(s)
    /\ ClosesQuote(s[i + 3 + NonQuoteRun(s, i + 3)])

\* the text captured by "(PT[^"]+)" matching at i
QuotedIso(s, i) == SubSeq(s, i + 1, i + 2 + NonQuoteRun(s, i + 3))

\* re.search(r'"duration":"(PT[^"]+)"', s)
SearchJsonIso(s) ==
    LET M(p) == s[p] = DurKey /\ QuotedIsoAt(s, p + 1)
        i == First({p \in 1..Len(s) : M(p)})
    IN  IF i = 0 THEN None ELSE Some(QuotedIso(s, i + 1))

\* re.search(r'itemprop="duration"\s+content="(PT[^"]+)"', s)
SearchItempropIso(s) ==
    LET after(p) == p + 1 + SpaceRun(s, p + 1)
        M(p) == /\ s[p] = ItemKey
                /\ SpaceRun(s, p + 1) > 0
                /\ after(p) <= Len(s)
                /\ s[after(p)] = ContentKey
                /\ QuotedIsoAt(s, after(p) + 1)
        i == First({p \in 1..Len(s) : M(p)})
    IN  IF i = 0 THEN None ELSE Some(QuotedIso(s, after(i) + 1))

\* _safe_int(v)
SafeInt(v) == IF IntParses(v) THEN Some(IntOf(v)) ELSE None

\* ingest_linear.extract_duration(html, player_response); pr.vd is
\* videoDetails.lengthSeconds of the player response and pr.mf its
\* microformat.playerMicroformatRenderer.lengthSeconds
extract_duration(html, pr) ==
    LET m1 == SearchQuotedNumber(html, LSKey)
        m2 == SearchBareNumber(html, LSKey)
        m3 == SearchQuotedNumber(html, MsKey)
        vd == SafeInt(pr.vd)
        mf == SafeInt(pr.mf)
        m6 == SearchJsonIso(html)
    IN  IF m1 # None THEN Some(DigitsVal(m1[1]))
        ELSE IF m2 # None THEN Some(DigitsVal(m2[1]))
        ELSE IF m3 # None /\ DigitsVal(m3[1]) > 0 THEN Some(DigitsVal(m3[1]) \div 1000)
        ELSE IF vd # None /\ vd[1] > 0 THEN vd
        ELSE IF mf # None /\ mf[1] > 0 THEN mf
        ELSE IF m6 # None /\ parse_iso8601_duration_to_seconds(m6[1]) # None
            THEN parse_iso8601_duration_to_seconds(m6[1])
        ELSE None

\* an extraction that looks for the duration markers before lengthSeconds
ExtrairIsoFirst(html) ==
    LET ls == SearchQuotedNumber(html, LSKey)
        item == SearchItempropIso(html)
        json == SearchJsonIso(html)
    IN  IF item # None THEN parse_iso8601_duration(item[1])
        ELSE IF json # None THEN parse_iso8601_duration(json[1])
        ELSE IF ls # None THEN Some(DigitsVal(ls[1]))
        ELSE None

\* youtube_duration.extrair_duracao_segundos(html)
extrair_duracao_segundos(html) ==
    LET ls == SearchQuotedNumber(html, LSKey)
        item == SearchItempropIso(html)
        json == SearchJsonIso(html)
    IN  IF ls # None THEN Some(DigitsVal(ls[1]))
        ELSE IF item # None THEN parse_iso8601_duration(item[1])
        ELSE IF json # None THEN parse_iso8601_duration(json[1])
        ELSE None

\* a fragment of a page: a field of a kind with its value
Frag(kind, v) == [kind |-> kind, v |-> v]

\* the text of a fragment
FragText(fr) ==
    CASE fr.kind = "lengthSeconds quoted" -> <<LSKey, Quote>> \o fr.v \o <<Quote, ",">>
      [] fr.kind = "lengthSeconds bare" -> <<LSKey>> \o fr.v \o <<",">>
      [] fr.kind = "approxDurationMs" -> <<MsKey, Quote>> \o fr.v \o <<Quote, ",">>
      [] fr.kind = "duration" -> <<DurKey, Quote>> \o fr.v \o <<Quote, ",">>
      [] fr.kind = "itemprop" ->
            <<"<meta ", ItemKey, " ", ContentKey, Quote>> \o fr.v \o <<Quote, " />">>
      [] OTHER -> fr.v

\* the fragments pages are made of: the fields of the tests, fields of value
\* zero, and markup without a field
Frags ==
    { Frag("lengthSeconds quoted", <<"3", "6", "6", "1">>),
      Frag("lengthSeconds quoted", <<"0">>),
      Frag("lengthSeconds bare", <<"9", "5">>),
      Frag("lengthSeconds bare", <<"0">>),
      Frag("approxDurationMs", <<"6", "1", "9", "9", "9">>),
      Frag("approxDurationMs", <<"5", "0", "0">>),
      Frag("duration", <<"P", "T", "4", "M", "7", "S">>),
      Frag("duration", <<"P", "T", "0", "S">>),
      Frag("itemprop", <<"P", "T", "1", "H", "2", "M", "3", "S">>),
      Frag("markup", <<"<script>", "</script>">>) }

\* the pages of at most MaxFrags fragments
Pages == UNION {[1..k -> Frags] : k \in 0..MaxFrags}

\* the text of a page: its fragments one after the other
RECURSIVE Html(_)
Html(page) == IF page = <<>> THEN <<>> ELSE FragText(Head(page)) \o Html(Tail(page))

\* the player responses: a field absent, zero, a number, a numeric string
PlayerResponses ==
    [vd : {PosNone, PosInt(0), PosStr(<<"4", "5">>)}, mf : {PosNone, PosInt(77)}]

CallExtractDuration ==
    /\ Calls("extract_duration")
    /\ FnReturns(extract_duration(Html(fn_arg.page), fn_arg.pr))

CallExtrairDuracaoSegundos ==
    /\ Calls("extrair_duracao_segundos")
    /\ FnReturns(extrair_duracao_segundos(Html(fn_arg.page)))


(***************************************************************************)
(* fetch_youtube_meta: the duration of the watch page, or an exception.   *)
(***************************************************************************)
\* str.upper() on the characters of a playability status
Upper(s) ==
    [k \in 1..Len(s) |-> CASE s[k] = "o" -> "O" [] s[k] = "k" -> "K" [] OTHER -> s[k]]

\* a fetch that takes any duration extract_duration returns, zero included
ZeroIsDuration(duration) == duration = None

\* "if not duration": nothing was found, or zero
NotDuration(duration) == duration = None \/ duration[1] = 0

\* fetch_youtube_meta on the page html, whose player response holds the
\* fields pr and the playability status st (None when it reports none): what
\* the call ends with, the metadata or the exception raised
fetch_youtube_meta(html, pr, st) ==
    LET duration == extract_duration(html, pr)
        status == Strip(IF st = None THEN <<>> ELSE st[1])
    IN  IF NotDuration(duration)
        THEN IF status # <<>> /\ Upper(status) # <<"O", "K">>
             THEN CallFails("duration not found (video unavailable)")
             ELSE CallFails("duration not found (unsupported YouTube page format)")
        ELSE CallOk(duration[1])

\* the playability status of a player response: none reported, empty, OK in
\* two spellings, and a status of an unavailable video
Statuses ==
    {None, Some(<<>>), Some(<<"O", "K">>), Some(<<" ", "o", "k", " ">>),
     Some(<<"E", "R", "R", "O", "R">>)}

CallFetchYoutubeMeta ==
    /\ Calls("fetch_youtube_meta")
    /\ \E r \in {fetch_youtube_meta(Html(fn_arg.page), fn_arg.pr, fn_arg.status)} :
        IF r.ok THEN FnReturns(r.duration) ELSE FnRaises(r.err)
(***************************************************************************)
(* get_next_position and channel_has_video on the items of a channel.     *)
(***************************************************************************)
\* the lists of at most MaxItems items, by their positions: none, integers,
\* numeric strings (one of them padded) and a string that is no number
PositionLists ==
    LET choices == { PosNone, PosInt(2), PosInt(5), PosStr(<<"7">>),
                     PosStr(<<" ", "3", " ">>), PosStr(<<"b", "a", "d">>) }
    IN  UNION {[1..k -> {Item(<<>>, p) : p \in choices}] : k \in 0..MaxItems}

\* get_next_position(channel_id, items)
CallGetNextPosition ==
    /\ Calls("get_next_position")
    /\ FnReturns(get_next_position(fn_arg))

\* the video ids of the candidate and of the items
ListedIds == {<<"a">>, <<"B", "-">>}

\* the URL an item is listed with: none, or the URL of a shape for an id
Entries ==
    [shape : UrlShapes, id : ListedIds, more : {FALSE}]
        \cup {[shape |-> "none", id |-> <<>>, more |-> FALSE],
              [shape |-> "watch", id |-> <<"a">>, more |-> TRUE]}

EntryUrl(e) == IF e.shape = "none" THEN <<>> ELSE ShapeUrl(e.shape, e.id, e.more)

\* a candidate id and a list of at most MaxItems items, by their URLs
HasVideoArgs == [id : ListedIds, entries : UNION {[1..k -> Entries] : k \in 0..MaxItems}]

\* channel_has_video(video_id, items)
CallChannelHasVideo ==
    /\ Calls("channel_has_video")
    /\ LET its == [k \in 1..Len(fn_arg.entries) |-> Item(EntryUrl(fn_arg.entries[k]), PosNone)]
       IN  FnReturns(channel_has_video(fn_arg.id, its))

(***************************************************************************)
(* resolve_channel_by_name on a name and a listing.                        *)
(***************************************************************************)
\* a name as it is written, and the name it is a way of writing
Named(key, text) == [key |-> key, text |-> text]

\* the names asked for: two ways of writing "world news", names that share a
\* part of it, a name of spaces only
AskedNames ==
    { Named("world news", <<"World", " ", "News">>),
      Named("world news", <<" ", "World", " ", "\t", "NEWS", " ">>),
      Named("sports", <<"Sports">>),
      Named("world", <<"World">>),
      Named("worldnews", <<"World", "News">>),
      Named("", <<" ", " ">>) }

\* the names channels are listed with; a channel may be listed without name
ListedNames ==
    { Named("world news", <<"World", " ", "News">>),
      Named("world news", <<"World", " ", " ", "NEWS", " ">>),
      Named("sports", <<"Sports">>),
      Named("world", <<"World">>),
      Named("", <<>>) }

\* a name and a listing of at most MaxCandidates channels, by their names
ResolveArgs ==
    [name : AskedNames, listed : UNION {[1..k -> ListedNames] : k \in 0..MaxCandidates}]

\* resolve_channel_by_name(channel_name, channels_flat): the index of the
\* channel returned, or the error raised and the channels it lists
CallResolveChannelByName ==
    /\ Calls("resolve_channel_by_name")
    /\ LET nth == <<"1", "2", "3", "4", "5">>
           channels == [k \in 1..Len(fn_arg.listed) |->
                           Descriptor(<<nth[k]>>, <<"1", nth[k]>>,
                                      fn_arg.listed[k].text, TRUE, <<>>)]
           r == resolve_channel_by_name(fn_arg.name.text, channels)
       IN  /\ pc' = IF r.err = "" THEN "returned" ELSE "raised"
           /\ error' = IF r.err = "" THEN NoError ELSE FnError(r.err)
           /\ fn_out' = IF r.err = "" THEN r.ch ELSE r.listed
    /\ UNCHANGED fnFrame

(***************************************************************************)
(* _strip_trailing_commas_json.  A document is a sequence of characters;  *)
(* a word without comma, bracket, quote, backslash or space is one token. *)
(***************************************************************************)
\* a test that looks at the character next to the comma only
ClosesNext(s, j) == j <= Len(s) /\ s[j] \in {"]", "}"}

\* j skips the " \t\r\n" from the character after the comma; s[j] in "]}"
ClosesAfter(s, j) ==
    LET k == j + SpaceRun(s, j) IN
    k <= Len(s) /\ s[k] \in {"]", "}"}

\* the loop of _strip_trailing_commas_json from position i on: what it
\* appends to out
RECURSIVE StripFrom(_, _, _, _)
StripFrom(s, i, in_str, esc) ==
    IF i > Len(s) THEN <<>>
    ELSE IF in_str THEN
        <<s[i]>> \o
            (IF esc THEN StripFrom(s, i + 1, TRUE, FALSE)
             ELSE IF s[i] = "\\" THEN StripFrom(s, i + 1, TRUE, TRUE)
             ELSE IF s[i] = Quote THEN StripFrom(s, i + 1, FALSE, FALSE)
             ELSE StripFrom(s, i + 1, TRUE, FALSE))
    ELSE IF s[i] = Quote THEN <<s[i]>> \o StripFrom(s, i + 1, TRUE, esc)
    ELSE IF s[i] = "," /\ ClosesAfter(s, i + 1) THEN StripFrom(s, i + 1, FALSE, esc)
    ELSE <<s[i]>> \o StripFrom(s, i + 1, FALSE, esc)

strip_trailing_commas_json(s) == StripFrom(s, 1, FALSE, FALSE)

\* the batch document with a trailing comma after the URL, the channel entry
\* and the channels list
DocWithCommas ==
    << "{", Quote, "channels", Quote, ":", "[", "{", Quote, "name", Quote, ":", Quote, "A",
       Quote, ",", Quote, "urls", Quote, ":", "[", Quote, "u1", Quote, ",", "]", ",", "}",
       ",", "]", "}" >>

\* the same document without trailing commas
DocWithoutCommas ==
    << "{", Quote, "channels", Quote, ":", "[", "{", Quote, "name", Quote, ":", Quote, "A",
       Quote, ",", Quote, "urls", Quote, ":", "[", Quote, "u1", Quote, "]", "}", "]", "}" >>

\* every document of at most MaxJsonLen characters; the batch document;
\* documents with a trailing comma before a line break, and with commas and
\* brackets inside a name that holds an escaped quote
JsonTexts ==
    UNION {[1..k -> {",", "]", Quote, "\\", " ", "a"}] : k \in 0..MaxJsonLen}
      \cup
    { DocWithCommas, DocWithoutCommas,
      << "[", "1", ",", "\n", "\t", "]" >>,
      << "[", "1", ",", "\r", "\n", " ", "}" >>,
      << "[", Quote, "a", "\\", Quote, ",", "]", ",", "}", Quote, ",", " ", "]" >>,
      << "[", Quote, "a", "\\", "\\", Quote, ",", "]" >>,
      << "[", "1", ",", "a", "]" >> }

CallStripTrailingCommas ==
    /\ Calls("_strip_trailing_commas_json")
    /\ FnReturns(strip_trailing_commas_json(fn_arg))


(***************************************************************************)
(* youtube_duration.formatar_duracao: str(timedelta(seconds=segundos)).    *)
(***************************************************************************)
\* the decimal text of a natural number ("%d")
RECURSIVE Decimal(_)
Decimal(n) ==
    LET d == <<"0", "1", "2", "3", "4", "5", "6", "7", "8", "9">>[(n % 10) + 1]
    IN IF n < 10 THEN <<d>> ELSE Decimal(n \div 10) \o <<d>>

\* a field written without padding ("%d" where the code has "%02d")
Unpadded(n) == Decimal(n)

\* a field of two digits at least ("%02d")
Pad2(n) == IF n < 10 THEN <<"0">> \o Decimal(n) ELSE Decimal(n)

\* timedelta normalises to days and seconds of the day, and writes the seconds
\* of the day as "%d:%02d:%02d", after "N day, " or "N days, " when days # 0
formatar_duracao(segundos) ==
    LET days == segundos \div 86400
        secs == segundos % 86400
        mm0 == secs \div 60
        ss == secs % 60
        hh == mm0 \div 60
        mm == mm0 % 60
        clock == Decimal(hh) \o <<":">> \o Pad2(mm) \o <<":">> \o Pad2(ss)
    IN IF days = 0 THEN clock
       ELSE Decimal(days) \o <<" ", "d", "a", "y">>
            \o (IF days = 1 THEN <<>> ELSE <<"s">>) \o <<",", " ">> \o clock

CallFormatarDuracao ==
    /\ Calls("formatar_duracao")
    /\ FnReturns(formatar_duracao(fn_arg))
(***************************************************************************)
(* Single mode: main looks the playlist up and calls insert once for the  *)
(* channel, with the items get_channel_items finds (none, or a snapshot)  *)
(* and the next position computed from them.  Every metadata fetch of the *)
(* call reads the same watch page.                                         *)
(***************************************************************************)
\* the watch page of a video of 212 seconds
PlainPage == <<Frag("lengthSeconds quoted", <<"2", "1", "2">>)>>

\* the URLs and watch pages insert is called on: every URL shape with the
\* plain page, and one URL with every page of one fragment at most
InsertArgs ==
    [shape : UrlShapes, id : VideoIds, more : BOOLEAN, page : {PlainPage},
     pr : {[vd |-> PosNone, mf |-> PosNone]}, status : {None}]
    \cup [shape : {"watch"}, id : {<<"a">>}, more : {FALSE},
          page : {<<>>} \cup {<<f>> : f \in Frags}, pr : PlayerResponses, status : Statuses]

\* playlist_id = fetch_default_playlist_id(args.channel_id);
\* insert(args.channel_id, args.youtube_url, dry_run=..., playlist_id=...)
CallInsert ==
    /\ Calls("insert")
    /\ \E o \in PlaylistOutcomes : \E its \in {<<>>} \cup Snapshots : \E po \in PostOutcomes :
       LET u == ShapeUrl(fn_arg.shape, fn_arg.id, fn_arg.more)
           cid == <<"1">>
           pl == fetch_default_playlist_id(cid, <<>>, o)
           m == fetch_youtube_meta(Html(fn_arg.page), fn_arg.pr, fn_arg.status)
       IN
       \E r \in {insert(cid, u, its, None, dry_run, pl.value, attempts,
                        [k \in 1..attempts |-> m], po)} :
         /\ channel_id' = cid
         /\ playlist_id' = pl.value
         /\ playlist_cache' = pl.cache
         /\ playlist_requests' = playlist_requests + 1
         /\ listing_reads' = listing_reads
                + Cardinality({k \in 1..Len(r.steps) : r.steps[k] \in {"dedup", "read listing"}})
         /\ items' = its
         /\ url' = u
         /\ video_id' = r.video_id
         /\ meta' = r.meta
         /\ payload' = r.payload
         /\ steps' = r.steps
         /\ call_log' = r.calls
         /\ did_insert' = (r.ret = "True")
         /\ pc' = IF r.ret = "raise" THEN "raised" ELSE "returned"
         /\ fn_out' = <<r.ret>>
         /\ error' = IF r.ret = "raise" THEN FnError(r.err) ELSE NoError
    /\ UNCHANGED <<inputVars, idx, ch_spec, ch, n_seen, channels_flat, pos, last_ins,
                   attempts, fn_run, fn, fn_arg, urls, u_idx, accepted>>


(***************************************************************************)
(* fetch_default_playlist_id called several times in one process: the     *)
(* cache _PLAYLIST_CACHE lives as long as the process.                     *)
(***************************************************************************)
\* the identifiers the lookup is called with: the text given and the key it
\* was written for; the empty text has no key
LookupIds ==
    {[key |-> <<"3">>, text |-> <<"3">>],
     [key |-> <<"3">>, text |-> <<"0", "0", "3">>],
     [key |-> <<"7">>, text |-> <<" ", "7">>],
     [key |-> <<>>, text |-> <<" ">>]}

\* the next call of the sequence fn_arg: fn_out holds, per call made, the
\* value returned and whether the administrative page was requested
CallFetchDefaultPlaylistId ==
    /\ Calls("fetch_default_playlist_id")
    /\ Len(fn_out) < Len(fn_arg)
    /\ LET cid == fn_arg[Len(fn_out) + 1].text IN
       \E o \in PlaylistOutcomesFor(cid, playlist_cache) :
       \E p \in {fetch_default_playlist_id(cid, playlist_cache, o)} :
        /\ fn_out' = Append(fn_out, [value |-> p.value, requested |-> p.requested])
        /\ playlist_cache' = p.cache
        /\ playlist_requests' = playlist_requests + (IF p.requested THEN 1 ELSE 0)
    /\ pc' = IF Len(fn_out') = Len(fn_arg) THEN "returned" ELSE "call"
    /\ UNCHANGED <<inputVars, channelVars, itemVars, attempts, fn_run, fn, fn_arg, urlVars,
                   listing_reads, error>>

(***************************************************************************)
(* ingest_from_json as a function of its inputs: the batch, the listing    *)
(* of the catalog when the run starts, the outcome of the playlist lookups *)
(* and of the metadata fetches.  Every item-create request is accepted.    *)
(***************************************************************************)
\* a catalog that lists, with every channel, the items it accepted
CatalogListsAll(listing, pay) ==
    [k \in 1..Len(listing) |->
        IF NormId(listing[k].id) = pay.channel_id
        THEN [listing[k] EXCEPT !.has_items = TRUE,
                                !.items = Append(@, Item(pay.url, PosInt(pay.position)))]
        ELSE listing[k]]

\* the listing of the catalog after it accepted an item-create request: the
\* item belongs to the channel of that internal id, and the listing carries
\* the items of the linear channels only
CatalogAfter(listing, pay) ==
    [k \in 1..Len(listing) |->
        IF NormId(listing[k].id) = pay.channel_id /\ listing[k].has_items
        THEN [listing[k] EXCEPT !.items = Append(@, Item(pay.url, PosInt(pay.position)))]
        ELSE listing[k]]

\* the URL loop of one channel entry, from the URLs us on: the shadow list
\* and the catalog it leaves, what each URL ended with (the payload printed
\* and sent, a duplicate skipped, an error), and whether an error left it
RECURSIVE UrlLoop(_, _, _, _, _)

\* the rest of an iteration, after insert ended with r
AfterInsert(c, us, its, p, catalog, r) ==
    LET u == Head(us)
        d == r.ret = "True"
        ev == [url |-> u, ret |-> r.ret, payload |-> r.payload]
        cat == IF r.applied THEN CatalogAfter(catalog, r.payload) ELSE catalog
    IN  IF r.ret = "raise" /\ Reraises(c.continue_on_error)
        THEN [items |-> its, catalog |-> cat, out |-> <<ev>>, aborted |-> TRUE]
        ELSE [UrlLoop(c, Tail(us), IF d THEN Append(its, ShadowItem(u, p)) ELSE its,
                      IF d THEN NextPos(p) ELSE p, cat)
                EXCEPT !.out = <<ev>> \o @]

UrlLoop(c, us, its, p, catalog) ==
    IF us = <<>> THEN [items |-> its, catalog |-> catalog, out |-> <<>>, aborted |-> FALSE]
    ELSE LET m == IF ExtractOk(Head(us)) THEN c.metas[extract_video_id(Head(us))]
                  ELSE DefaultRun(1)[1]
         IN AfterInsert(c, us, its, p, catalog,
                        insert(c.channel_id, Head(us), its, Some(p), c.dry_run, c.playlist_id,
                               DefaultAttempts, [k \in 1..DefaultAttempts |-> m], "ok"))

\* the channel loop from the entries es on: what the URLs of the run ended
\* with, in order
RECURSIVE ChannelLoop(_, _, _, _, _)

\* the rest of the channel loop, after the URL loop of the entry ended with lp
AfterUrls(c, es, flat, i, cache, lp) ==
    IF lp.aborted THEN lp.out
    ELSE lp.out \o ChannelLoop(c, Tail(es),
                               IF flat[i].has_items
                               THEN [flat EXCEPT ![i].items = lp.items] ELSE flat,
                               lp.catalog, cache)

\* the entry after its head: the playlist lookup pl, the items of the channel
\* its, the first position, the URL loop
AfterHead(c, es, flat, catalog, h, pl, its) ==
    AfterUrls(c, es, flat, h.ch, pl.cache,
              UrlLoop([c EXCEPT !.channel_id = h.channel_id, !.playlist_id = pl.value],
                      EffectiveUrls(Head(es)).v, its, get_next_position(its), catalog))

ChannelLoop(c, es, flat, catalog, cache) ==
    IF es = <<>> THEN <<>>
    ELSE LET h == ChannelHead(Head(es), flat, "id") IN
         IF h.err # "" THEN <<[url |-> <<>>, ret |-> h.err, payload |-> NoPayload]>>
         ELSE AfterHead(c, es, flat, catalog, h,
                        fetch_default_playlist_id(h.channel_id, cache, c.lookup),
                        IF flat[h.ch].has_items THEN flat[h.ch].items
                        ELSE get_channel_items(h.channel_id, catalog))

\* ingest_from_json(json_path, dry_run=..., continue_on_error=...) on the
\* batch and the circumstances arg
ingest_from_json(arg, dry) ==
    ChannelLoop([dry_run |-> dry, continue_on_error |-> arg.continue_on_error,
                 metas |-> arg.metas, lookup |-> arg.lookup,
                 channel_id |-> <<>>, playlist_id |-> None],
                arg.batch,
                flatten_edge_channels(CatalogListing(arg.snapshot)),
                CatalogListing(arg.snapshot), <<>>)

\* the channel entries of at most n URLs: they name the linear channel or
\* the channel listed without items
BatchEntries(n) ==
    [name : {JStr(<<" ", "world", "\t", " ", "NEWS">>), JStr(<<"Sports">>)},
     urls : {JList(q) : q \in UNION {[1..k -> {UWatchA, UEmbedB, ULiveA}] : k \in 0..n}}]

\* the batches of k entries with at most n URLs in all
RECURSIVE BatchesOf(_, _)
BatchesOf(k, n) ==
    IF k = 0 THEN {<<>>}
    ELSE UNION {{<<e>> \o b : b \in BatchesOf(k - 1, n - Len(e.urls.v))} :
                    e \in BatchEntries(n)}

\* the batches: at most MaxChannels entries, with at most MaxUrls URLs in all
Batches == UNION {BatchesOf(k, MaxUrls) : k \in 1..MaxChannels}

\* the dry run and the real run of one batch under the same circumstances
CallIngestFromJson ==
    /\ Calls("ingest_from_json")
    /\ FnReturns([shown |-> ingest_from_json(fn_arg, TRUE),
                  sent |-> ingest_from_json(fn_arg, FALSE)])
(***************************************************************************)
(* The specification of the functions alone.                               *)
(***************************************************************************)
\* the arguments a function is called on
FnArgs(f) ==
    CASE f = "extract_video_id" -> [shape : UrlShapes, id : VideoIds, more : BOOLEAN]
      [] f = "normalize_watch_url" -> VideoIds
      [] f = "insert" -> InsertArgs
      [] f = "fetch_default_playlist_id" -> UNION {[1..k -> LookupIds] : k \in 1..MaxLookups}
      [] f = "ingest_from_json" ->
            [batch : Batches, snapshot : Snapshots, continue_on_error : BOOLEAN,
             lookup : {o \in PlaylistOutcomes : o.kind = "selected option"},
             metas : {m \in [{<<"a">>, <<"b">>} -> CallOutcomes(MetaErrors)] :
                        m[<<"a">>].ok \/ m[<<"b">>].ok}]
      [] f = "fetch_youtube_meta" -> [page : Pages, pr : PlayerResponses, status : Statuses]
      [] f = "parse_iso8601_duration" -> IsoTexts
      [] f = "extract_duration" -> [page : Pages, pr : PlayerResponses]
      [] f = "extrair_duracao_segundos" -> [page : Pages]
      [] f = "get_next_position" -> PositionLists
      [] f = "channel_has_video" -> HasVideoArgs
      [] f = "resolve_channel_by_name" -> ResolveArgs
      [] f = "_strip_trailing_commas_json" -> JsonTexts
      \* every mix of the hours, minutes and seconds that have one or two
      \* digits, the value of the test, and the first values of more than a day
      [] f = "formatar_duracao" ->
            {3600 * h + 60 * m + s : h \in {0, 1, 9, 10, 23}, m \in {0, 1, 9, 10, 59},
                                     s \in {0, 1, 9, 10, 59}}
            \cup {3661, 86400, 86401, 90061, 172800}

InitFn ==
    /\ dry_run = FALSE
    /\ continue_on_error = FALSE
    /\ delay_seconds = 0
    /\ channel_id_mode = "id"
    /\ doc = "list"
    /\ snapshot = <<>>
    /\ pc = "call"
    /\ attempts = DefaultAttempts
    /\ fn_run = <<>>
    /\ fn \in {"extract_video_id", "normalize_watch_url", "insert",
               "parse_iso8601_duration", "extract_duration",
               "extrair_duracao_segundos", "get_next_position", "channel_has_video",
               "resolve_channel_by_name", "_strip_trailing_commas_json",
               "formatar_duracao", "fetch_youtube_meta",
               "fetch_default_playlist_id", "ingest_from_json"}
    /\ fn_arg \in FnArgs(fn)
    /\ fn_out = <<>>
    /\ Fresh

NextFn ==
    \/ CallExtractVideoId
    \/ CallNormalizeWatchUrl
    \/ CallInsert
    \/ CallParseIso8601Duration
    \/ CallExtractDuration
    \/ CallExtrairDuracaoSegundos
    \/ CallGetNextPosition
    \/ CallChannelHasVideo
    \/ CallResolveChannelByName
    \/ CallStripTrailingCommas
    \/ CallFormatarDuracao
    \/ CallFetchYoutubeMeta
    \/ CallFetchDefaultPlaylistId
    \/ CallIngestFromJson

SpecFn == InitFn /\ [][NextFn]_vars

(***************************************************************************)
(* Properties.                                                             *)
(***************************************************************************)
\* the number of occurrences of x in the sequence q
Count(x, q) == Cardinality({k \in 1..Len(q) : q[k] = x})

InSteps(x) == \E k \in 1..Len(steps) : steps[k] = x

InStepsNext(x) == \E k \in 1..Len(steps') : steps'[k] = x

\* the step taken is one iteration of the URL loop
UrlStep == pc = "url" /\ u_idx' = u_idx + 1

\* the items the catalog listed for the channel cid when the run started
SnapshotItems(cid) == get_channel_items(cid, CatalogListing(snapshot))

\* C1: for every channel, the positions of the successive successful inserts
\* of one run increase by one, the first being next_position of the items of
\* the channel's snapshot.  Violated: a channel the catalog lists without an
\* "items" list and that the batch names twice starts again at the same
\* position.
C1_PositionsIncrease ==
    [][(UrlStep /\ did_insert' /\ InStepsNext("post"))
        => payload'.position =
             IF last_ins[channel_id] = 0
             THEN get_next_position(SnapshotItems(channel_id))
             ELSE last_ins[channel_id] + 1]_vars

\* C2: no item-create request is issued for a video id that the channel's
\* snapshot holds or that the catalog accepted for the channel earlier in the
\* run.  Violated: after a write the catalog applied but whose answer was
\* lost, the same id is posted again.
C2_NeverReinserted ==
    [][(UrlStep /\ InStepsNext("post"))
        => /\ <<channel_id, video_id'>> \notin accepted
           /\ ~channel_has_video(video_id', SnapshotItems(channel_id))]_vars

\* C3: with continue_on_error = false, nothing follows the first per-item
\* failure: no step is taken from a state in which a URL has failed.
C3_FirstFailureAborts ==
    [][~(~continue_on_error /\ error.tier = "item")]_vars

\* the failed write of a URL aborted the batch with URLs of the channel left
C3_Witness ==
    /\ ~continue_on_error
    /\ pc = "aborted"
    /\ error.tier = "item"
    /\ InSteps("post")
    /\ u_idx < Len(urls)

\* C4, as stated: with continue_on_error = true every URL of every channel
\* entry is attempted.  Violated: an entry whose name resolves to no channel
\* ends the run with its URLs unattempted.
C4_EveryUrlAttempted ==
    (continue_on_error /\ pc \in {"aborted", "done"} /\ IsList(ch_spec.urls))
        => u_idx = Len(ch_spec.urls.v)

\* C4, amended: with continue_on_error = true only a structural error ends
\* the run early; a failing URL leaves the loop running, each iteration takes
\* the next URL of the list and reports its failure once, and the loop of a
\* channel ends only when every URL of its list has been attempted.
C4_ItemFailureNeverEndsRun ==
    [][continue_on_error
        => /\ (pc' = "aborted" => error'.tier = "structural")
           /\ (UrlStep => /\ pc' = "url"
                          /\ steps' # <<>>
                          /\ Count("report error", steps')
                               = (IF error'.tier = "item" THEN 1 ELSE 0))
           /\ (pc = "url" /\ pc' = "channel" => u_idx = Len(EffectiveUrls(ch_spec).v))]_vars

\* the first of two URLs failed and was reported, and the loop goes on
C4_Witness ==
    /\ continue_on_error
    /\ pc = "url"
    /\ error.tier = "item"
    /\ Count("report error", steps) = 1
    /\ u_idx = 1
    /\ Len(urls) = 2

\* C5: the structural errors end the run for both values of
\* continue_on_error: once an entry without name, with "urls" that is no
\* list, or with a name that resolves to zero or several channels has been
\* read, the run is aborted.  Violated: "urls" that is no list but false in
\* Python ("", 0) is replaced by the empty list and the run goes on.
C5_StructuralErrorsAbort ==
    /\ (pc # "load" /\ doc # "list") => pc = "aborted"
    /\ (idx > 0 /\ ch_spec # NoSpec)
        => (( \/ ~Truthy(ch_spec.name)
              \/ ch_spec.urls.t \in {"str", "num"}
              \/ Cardinality(NameMatches(ch_spec.name.v, CatalogListing(snapshot))) # 1)
            => pc = "aborted" /\ u_idx = 0)

\* C6: the delay is slept only after a request that inserted an item, never
\* when dry_run is set.  Violated: with dry_run insert returns True and the
\* delay is slept.
C6_DelayOnlyAfterRealInsert ==
    InSteps("delay sleep") => (~dry_run /\ did_insert /\ InSteps("post"))

\* C7: with dry_run no item-create request is issued and the catalog accepts
\* nothing, while each URL goes through the platform check, the id
\* extraction, the duplicate check and, when it is no duplicate, the
\* metadata fetch and the payload construction.
C7_DryRunNeverWrites ==
    [][(dry_run /\ UrlStep)
        => /\ ~InStepsNext("post")
           /\ accepted' = {}
           /\ steps'[1] = "check platform"
           /\ IsPlatformUrl(url') => steps'[2] = "extract id"
           /\ (IsPlatformUrl(url') /\ ExtractOk(url'))
               => /\ steps'[3] = "dedup"
                  /\ ~channel_has_video(extract_video_id(url'), items)
                       => /\ steps'[4] = "fetch meta"
                          /\ meta' # None => (InStepsNext("payload") /\ did_insert')]_vars

\* a dry run built the payload of a new video and reported an insert
C7_Witness ==
    /\ dry_run
    /\ did_insert
    /\ InSteps("payload")
    /\ payload.position > 0

\* the calls of fn that succeed, among the first attempts calls
Successes == {k \in 1..attempts : fn_run[k].ok}

\* the number of calls retry is to make: up to the first success, or all
CallsDue ==
    IF Successes = {} THEN attempts
    ELSE CHOOSE k \in Successes : \A j \in Successes : k <= j

\* C8: retry(fn, attempts) with attempts >= 1 calls fn up to its first
\* success and at most attempts times; it returns the result of that call, or
\* raises the failure of the last call when all fail; it sleeps once between
\* two consecutive calls and never after the last one.
C8_RetryContract ==
    pc \in {"returned", "raised", "exhausted"}
        => /\ Len(call_log) = CallsDue
           /\ \A k \in 1..Len(call_log) : call_log[k] = fn_run[k]
           /\ Successes # {} => (pc = "returned" /\ meta = Some(fn_run[CallsDue].duration))
           /\ Successes = {} => (pc = "raised" /\ error.msg = fn_run[attempts].err)
           /\ Len(steps) = 2 * CallsDue - 1
           /\ \A j \in 1..Len(steps) :
                steps[j] = (IF j % 2 = 1 THEN "call" ELSE "retry sleep")

\* three attempts failed: three calls, two sleeps, the third failure raised
C8_Witness ==
    /\ pc = "raised"
    /\ attempts = 3
    /\ Len(call_log) = 3
    /\ Count("retry sleep", steps) = 2
    /\ call_log[1].err # call_log[3].err
    /\ error.msg = call_log[3].err

\* C9: one URL issues at most one item-create request; a failed request is
\* the last thing insert does, and its failure is the error of the URL; the
\* metadata fetch alone is repeated.
C9_WriteNeverRetried ==
    /\ Count("post", steps) <= 1
    /\ (InSteps("post") /\ ~did_insert)
        => /\ error.tier = "item"
           /\ error.msg \in {"remote error", "transport error"}
           /\ steps[Len(steps) - 1] = "post"
           /\ steps[Len(steps)] = "report error"
    /\ \A k \in 1..Len(steps) :
        steps[k] = "retry sleep" => (k < Len(steps) /\ steps[k + 1] = "fetch meta")

\* after a retried metadata fetch, the only item-create request failed and
\* the URL was reported as failed
C9_Witness ==
    /\ Count("post", steps) = 1
    /\ Count("fetch meta", steps) > 1
    /\ error = ItemError("remote error")
    /\ ~did_insert

\* C10: the playlist lookup never ends a run: for every outcome of its
\* request the channel gets a playlist id or none, and with none the URLs of
\* the channel are processed and posted without playlist_id.
C10_PlaylistLookupNeverAborts ==
    /\ error.msg # "playlist lookup raised"
    /\ pc = "url"
        => /\ NormId(channel_id) \in DOMAIN playlist_cache
           /\ playlist_id = playlist_cache[NormId(channel_id)]
           /\ playlist_id \in {None} \cup {NormId(o.value) : o \in PlaylistOutcomes}
    /\ (InSteps("payload") /\ playlist_id = None) => payload.playlist_id = None

\* the lookup found nothing, and a URL of the channel was inserted
C10_Witness ==
    /\ pc = "url"
    /\ playlist_id = None
    /\ playlist_requests > 0
    /\ did_insert
    /\ InSteps("post")
    /\ payload.playlist_id = None

\* the watch form of a video id
WatchForm(id) == <<"https://www.", "youtube", ".com", "/", "watch", "?", "v=">> \o id

C13_SameIdForEveryShape ==
    Called("extract_video_id") =>
        IF fn_arg.shape \in {"short", "watch", "embed", "live"}
        THEN pc = "returned" /\ fn_out = fn_arg.id
        ELSE pc = "raised" /\ error = FnError("invalid youtube url")

\* C14: for an id of letters, digits, underscores and hyphens the canonical
\* watch URL gives the id back under extract_video_id, and rebuilding the
\* watch URL from that id gives the same URL.
C14_RoundTrip ==
    Called("normalize_watch_url") =>
        /\ pc = "returned"
        /\ ExtractOk(fn_out)
        /\ extract_video_id(fn_out) = fn_arg
        /\ normalize_watch_url(extract_video_id(fn_out)) = fn_out

\* the watch URL of an id that holds a hyphen and an underscore was built
C14_Witness ==
    /\ Called("normalize_watch_url")
    /\ fn_arg = <<"-", "_">>
    /\ fn_out = <<"https://www.", "youtube", ".com", "/", "watch", "?", "v=", "-", "_">>

\* the characters a..b of s are nothing, or digits followed by the letter
IsoPart(s, a, b, letter) ==
    \/ b = a - 1
    \/ /\ b > a
       /\ s[b] = letter
       /\ \A k \in a..(b - 1) : IsDigit(s[k])

\* the number of the part a..b of s
IsoPartVal(s, a, b) == IF b < a THEN 0 ELSE DigitsVal(SubSeq(s, a, b - 1))

\* the ways to read s as "PT", hours, minutes and seconds: the ends of the
\* hours part and of the minutes part
IsoReadings(s) ==
    IF Len(s) < 2 \/ s[1] # "P" \/ s[2] # "T" THEN {}
    ELSE {e \in (2..Len(s)) \X (2..Len(s)) :
            /\ e[1] <= e[2]
            /\ IsoPart(s, 3, e[1], "H")
            /\ IsoPart(s, e[1] + 1, e[2], "M")
            /\ IsoPart(s, e[2] + 1, Len(s), "S")}

\* C19: parse_iso8601_duration of "PT" followed by optional hours "hH",
\* minutes "mM" and seconds "sS" in that order returns 3600*h + 60*m + s
\* (PT1H2M3S gives 3723, PT4M7S gives 247); for any other text it returns no
\* result and does not raise.
C19_IsoDuration ==
    Called("parse_iso8601_duration") =>
        /\ pc = "returned"
        /\ IF IsoReadings(fn_arg) = {}
           THEN fn_out = None
           ELSE \A e \in IsoReadings(fn_arg) :
                    fn_out = Some(3600 * IsoPartVal(fn_arg, 3, e[1])
                                  + 60 * IsoPartVal(fn_arg, e[1] + 1, e[2])
                                  + IsoPartVal(fn_arg, e[2] + 1, Len(fn_arg)))
        /\ fn_arg = <<"P", "T", "1", "H", "2", "M", "3", "S">> => fn_out = Some(3723)
        /\ fn_arg = <<"P", "T", "4", "M", "7", "S">> => fn_out = Some(247)
        /\ fn_arg = <<"I", "N", "V", "A", "L", "I", "D">> => fn_out = None

\* PT1H2M3S was parsed to 3723
C19_Witness ==
    /\ Called("parse_iso8601_duration")
    /\ fn_arg = <<"P", "T", "1", "H", "2", "M", "3", "S">>
    /\ fn_out = Some(3723)

\* the value of the first fragment of the kind in the page, <<>> when the
\* page has none
FirstOfKind(page, kind) ==
    LET i == First({p \in 1..Len(page) : page[p].kind = kind})
    IN  IF i = 0 THEN <<>> ELSE page[i].v

\* the seconds of a duration text, by its parts; 0 when it is none
IsoSeconds(s) ==
    IF IsoReadings(s) = {} THEN 0
    ELSE LET e == CHOOSE r \in IsoReadings(s) : TRUE IN
         3600 * IsoPartVal(s, 3, e[1]) + 60 * IsoPartVal(s, e[1] + 1, e[2])
            + IsoPartVal(s, e[2] + 1, Len(s))

\* the number held by a field of the player response, 0 when it holds none
FieldVal(v) == IF v.t = "int" THEN v.n ELSE IF v.t = "str" THEN DigitsVal(v.s) ELSE 0

\* what each strategy yields on the page and player response, in the order
\* of the strategies
Yields(arg) ==
    << DigitsVal(FirstOfKind(arg.page, "lengthSeconds quoted")),
       DigitsVal(FirstOfKind(arg.page, "lengthSeconds bare")),
       DigitsVal(FirstOfKind(arg.page, "approxDurationMs")) \div 1000,
       FieldVal(arg.pr.vd),
       FieldVal(arg.pr.mf),
       IsoSeconds(FirstOfKind(arg.page, "duration")) >>

\* C12: extract_duration returns the value of the first strategy, in the
\* order quoted lengthSeconds, bare lengthSeconds, approxDurationMs divided by
\* 1000, videoDetails.lengthSeconds, microformat lengthSeconds, ISO-8601
\* duration, that yields a positive integer; a strategy that matches and
\* yields zero does not keep the later strategies from being tried.
C12_FirstPositiveStrategy ==
    Called("extract_duration") =>
        LET y == Yields(fn_arg)
            k == First({n \in 1..6 : y[n] > 0})
        IN  k # 0 => fn_out = Some(y[k])

\* the page has a fragment of the kind
HasKind(page, kind) == \E i \in 1..Len(page) : page[i].kind = kind

\* C20: extrair_duracao_segundos of a page with a quoted lengthSeconds field
\* gives that number, whatever duration markers the page also has; of a page
\* whose only marker is an itemprop duration it gives the seconds of that
\* duration; of a page with none of the markers it gives no duration, never
\* a number.
C20_PageDuration ==
    Called("extrair_duracao_segundos") =>
        LET page == fn_arg.page IN
        /\ pc = "returned"
        /\ HasKind(page, "lengthSeconds quoted")
            => fn_out = Some(DigitsVal(FirstOfKind(page, "lengthSeconds quoted")))
        /\ (HasKind(page, "itemprop") /\ ~HasKind(page, "lengthSeconds quoted")
                /\ ~HasKind(page, "duration"))
            => fn_out = Some(IsoSeconds(FirstOfKind(page, "itemprop")))
        /\ (~HasKind(page, "lengthSeconds quoted") /\ ~HasKind(page, "itemprop")
                /\ ~HasKind(page, "duration"))
            => fn_out = None

\* lengthSeconds 3661 was returned for a page that also has an itemprop
\* duration of 3723 seconds before it
C20_Witness ==
    /\ Called("extrair_duracao_segundos")
    /\ fn_arg.page = << Frag("itemprop", <<"P", "T", "1", "H", "2", "M", "3", "S">>),
                        Frag("lengthSeconds quoted", <<"3", "6", "6", "1">>) >>
    /\ fn_out = Some(3661)

\* the integer a listed position stands for, none for a missing position and
\* for a string that is no number
PositionValue(p) ==
    IF p.t = "int" THEN Some(p.n)
    ELSE IF p = PosStr(<<"7">>) THEN Some(7)
    ELSE IF p = PosStr(<<" ", "3", " ">>) THEN Some(3)
    ELSE None

\* the integers the positions of the items stand for
PositionValues(its) ==
    {PositionValue(its[k].position)[1] :
        k \in {j \in 1..Len(its) : PositionValue(its[j].position) # None}}

\* C15: get_next_position returns 1 for an empty list; otherwise 1 plus the
\* greatest of the positions that parse as integers, items with a missing or
\* unparseable position being ignored; and the number of items plus 1 when no
\* position parses ([{5},{bad}] gives 6, [{bad}] gives 2).
C15_NextPosition ==
    Called("get_next_position") =>
        /\ pc = "returned"
        /\ fn_arg = <<>> => fn_out = 1
        /\ (fn_arg # <<>> /\ PositionValues(fn_arg) = {}) => fn_out = Len(fn_arg) + 1
        /\ PositionValues(fn_arg) # {} =>
            /\ fn_out - 1 \in PositionValues(fn_arg)
            /\ \A v \in PositionValues(fn_arg) : v <= fn_out - 1
        /\ fn_arg = <<Item(<<>>, PosInt(5)), Item(<<>>, PosStr(<<"b", "a", "d">>))>>
            => fn_out = 6
        /\ fn_arg = <<Item(<<>>, PosStr(<<"b", "a", "d">>))>> => fn_out = 2

\* [{5},{bad}] gave 6
C15_Witness ==
    /\ Called("get_next_position")
    /\ fn_arg = <<Item(<<>>, PosInt(5)), Item(<<>>, PosStr(<<"b", "a", "d">>))>>
    /\ fn_out = 6

\* the URL shapes that encode a video id
RecognizedShapes == {"short", "watch", "embed", "live"}

\* C16: channel_has_video(id, items) is true exactly when some item with a
\* non-empty url yields id under extract_video_id, or fails the extraction
\* and has the watch form of id as its url; in particular it is true when an
\* item's URL of any recognized shape encodes the id of the candidate, and
\* false for an empty list.
C16_HasVideo ==
    Called("channel_has_video") =>
        LET es == fn_arg.entries
            u(k) == EntryUrl(es[k])
        IN
        /\ pc = "returned"
        /\ fn_out = (\E k \in 1..Len(es) :
                        /\ u(k) # <<>>
                        /\ IF ExtractOk(u(k))
                           THEN extract_video_id(u(k)) = fn_arg.id
                           ELSE u(k) = WatchForm(fn_arg.id))
        /\ (\E k \in 1..Len(es) : es[k].shape \in RecognizedShapes /\ es[k].id = fn_arg.id)
            => fn_out = TRUE
        /\ es = <<>> => fn_out = FALSE

\* the channels of the listing whose name is the name asked for
SameName(arg) == {k \in 1..Len(arg.listed) : arg.listed[k].key = arg.name.key}

\* what C17 states of a call: one match is returned, none is a not-found
\* error, several are an ambiguity error that lists them all, and nothing
\* else is ever returned
ResolvesByMatches(arg) ==
    /\ Cardinality(SameName(arg)) = 1 => (pc = "returned" /\ fn_out \in SameName(arg))
    /\ SameName(arg) = {} => (pc = "raised" /\ error = FnError("channel name not found"))
    /\ Cardinality(SameName(arg)) > 1 =>
        /\ pc = "raised"
        /\ error = FnError("ambiguous channel name")
        /\ fn_out = SameName(arg)
    /\ pc = "returned" => SameName(arg) = {fn_out}

\* C17: resolve_channel_by_name compares the names after collapsing runs of
\* whitespace, trimming and case-folding, for equality only: exactly one
\* match returns that channel, no match raises a not-found error, two or more
\* matches raise an ambiguity error listing every match; no channel of
\* another name is returned and none is picked among several.
C17_Resolve ==
    Called("resolve_channel_by_name") => ResolvesByMatches(fn_arg)

\* C17 for the names that are not empty once normalized; a name that is
\* empty once normalized raises the empty-name error, whatever the listing.
C17_ResolveNonEmpty ==
    Called("resolve_channel_by_name") =>
        IF fn_arg.name.key = ""
        THEN pc = "raised" /\ error = FnError("empty channel name")
        ELSE ResolvesByMatches(fn_arg)

\* " World \tNEWS " was resolved to the second channel, "World  NEWS ", the
\* first being "World"
C17_Witness ==
    /\ Called("resolve_channel_by_name")
    /\ fn_arg.name = Named("world news", <<" ", "World", " ", "\t", "NEWS", " ">>)
    /\ fn_arg.listed = << Named("world", <<"World">>),
                          Named("world news", <<"World", " ", " ", "NEWS", " ">>) >>
    /\ pc = "returned"
    /\ fn_out = 2

\* where the reader of a document is before its i-th character: outside a
\* string literal, inside one, or inside one just after a backslash
RECURSIVE Lex(_, _)
Lex(s, i) ==
    IF i = 1 THEN "out"
    ELSE LET before == Lex(s, i - 1) IN
         IF before = "out" THEN (IF s[i - 1] = Quote THEN "str" ELSE "out")
         ELSE IF before = "esc" THEN "str"
         ELSE IF s[i - 1] = "\\" THEN "esc"
         ELSE IF s[i - 1] = Quote THEN "out"
         ELSE "str"

\* the commas of s outside string literals that only whitespace separates
\* from a closing bracket
TrailingCommas(s) ==
    {i \in 1..Len(s) :
        /\ s[i] = ","
        /\ Lex(s, i) = "out"
        /\ \E j \in (i + 1)..Len(s) :
            /\ s[j] \in {"]", "}"}
            /\ \A k \in (i + 1)..(j - 1) : s[k] \in {" ", "\t", "\r", "\n"}}

\* s without the characters at the positions of R
RECURSIVE Without(_, _)
Without(s, R) ==
    IF s = <<>> THEN <<>>
    ELSE Without(SubSeq(s, 1, Len(s) - 1), R)
            \o (IF Len(s) \in R THEN <<>> ELSE <<s[Len(s)]>>)

\* C18: _strip_trailing_commas_json removes exactly the commas outside string
\* literals that are followed, after optional whitespace, by "]" or "}";
\* every other character, commas, brackets and escaped quotes inside string
\* literals included, is output unchanged and in order: the document with
\* trailing commas becomes the same document without them, and a document
\* without trailing commas is returned unchanged.
C18_StripTrailingCommas ==
    Called("_strip_trailing_commas_json") =>
        /\ pc = "returned"
        /\ fn_out = Without(fn_arg, TrailingCommas(fn_arg))
        /\ TrailingCommas(fn_arg) = {} => fn_out = fn_arg
        /\ fn_arg = DocWithCommas => fn_out = DocWithoutCommas
        /\ fn_arg = DocWithoutCommas => fn_out = DocWithoutCommas

\* the commas after the string and before the last bracket were removed, the
\* commas and brackets inside the string were kept
C18_Witness ==
    /\ Called("_strip_trailing_commas_json")
    /\ fn_arg = << "[", Quote, "a", "\\", Quote, ",", "]", ",", "}", Quote, ",", " ", "]" >>
    /\ fn_out = << "[", Quote, "a", "\\", Quote, ",", "]", ",", "}", Quote, " ", "]" >>


(***************************************************************************)
(* C21: for 0 <= s < 86400, formatar_duracao(s) is H:MM:SS where H is      *)
(* s div 3600 written without padding and MM, SS are the minutes and the   *)
(* seconds written with two digits; 3661 gives "1:01:01".  The text is     *)
(* read back field by field: the fields between the colons are digits, the *)
(* first has no leading zero and the value s div 3600, the other two have  *)
(* two digits each and the values (s div 60) mod 60 and s mod 60.          *)
(***************************************************************************)
\* the positions of the colons of a text
Colons(s) == {k \in 1..Len(s) : s[k] = ":"}

\* the text reads H:MM:SS for the seconds n
ReadsAsClock(s, n) ==
    /\ Cardinality(Colons(s)) = 2
    /\ LET c1 == First(Colons(s))
           c2 == First(Colons(s) \ {c1})
           h == SubSeq(s, 1, c1 - 1)
           m == SubSeq(s, c1 + 1, c2 - 1)
           x == SubSeq(s, c2 + 1, Len(s))
       IN /\ AllDigits(h) /\ AllDigits(m) /\ AllDigits(x)
          /\ (Len(h) = 1 \/ h[1] # "0")
          /\ Len(m) = 2 /\ Len(x) = 2
          /\ DigitsVal(h) = n \div 3600
          /\ DigitsVal(m) = (n \div 60) % 60
          /\ DigitsVal(x) = n % 60

NoPositiveDuration(arg) == \A n \in 1..6 : Yields(arg)[n] = 0

\* the player response reports a playability status that is not OK
ReportsNotOk(arg) ==
    arg.status \notin {None, Some(<<>>), Some(<<"O", "K">>), Some(<<" ", "o", "k", " ">>)}

\* the error of a fetch that found no duration
NoDurationError(arg) ==
    IF ReportsNotOk(arg) THEN "duration not found (video unavailable)"
    ELSE "duration not found (unsupported YouTube page format)"

C24_CacheNeverInvalidated ==
    fn = "fetch_default_playlist_id" =>
        LET made == 1..Len(fn_out)
            keyed == {i \in made : fn_arg[i].key # <<>>}
        IN
        /\ \A i \in keyed : \A j \in keyed :
            (i < j /\ fn_arg[i].key = fn_arg[j].key) =>
                /\ fn_out[j].value = fn_out[i].value
                /\ ~fn_out[j].requested
        /\ \A i \in keyed :
            Cardinality({j \in keyed : fn_arg[j].key = fn_arg[i].key /\ fn_out[j].requested}) = 1
        /\ \A i \in keyed :
            /\ fn_arg[i].key \in DOMAIN playlist_cache
            /\ playlist_cache[fn_arg[i].key] = fn_out[i].value
        /\ playlist_requests = Cardinality({fn_arg[i].key : i \in keyed})
        /\ \A i \in made \ keyed : fn_out[i].value = None /\ ~fn_out[i].requested

\* the lookup was called for "3", whose request failed, and then for "003":
\* the second call returned none as well, without a request
C24_Witness ==
    /\ Called("fetch_default_playlist_id")
    /\ Len(fn_arg) >= 2
    /\ fn_arg[1].text = <<"3">> /\ fn_arg[2].text = <<"0", "0", "3">>
    /\ fn_out[1] = [value |-> None, requested |-> TRUE]
    /\ fn_out[2] = [value |-> None, requested |-> FALSE]
    /\ playlist_requests = 1

(***************************************************************************)
(* C25: a URL whose processing fails counts as no insert.  Under           *)
(* continue_on_error, after a per-item failure (id extraction, metadata    *)
(* fetch or catalog write) the position counter and the shadow item list   *)
(* of the channel are what they were before the URL, and no delay is       *)
(* slept; the same holds for a URL skipped as a duplicate.                 *)
(***************************************************************************)
\* the iteration ended with insert returning False at the duplicate check
SkippedAsDuplicate == steps'[Len(steps')] = "dedup"

C25_FailureIsNoInsert ==
    [][(UrlStep /\ continue_on_error /\ (error'.tier = "item" \/ SkippedAsDuplicate)) =>
        /\ pos' = pos
        /\ items' = items
        /\ channels_flat' = channels_flat
        /\ ~InStepsNext("shadow append")
        /\ ~InStepsNext("delay sleep")
        /\ pc' = "url"]_vars

\* with a delay configured, the item-create request of a URL failed and the
\* run went on: the channel still has its two listed items and the next
\* position after them
C25_Witness ==
    /\ continue_on_error /\ delay_seconds > 0
    /\ pc = "url"
    /\ error = ItemError("remote error")
    /\ InSteps("post")
    /\ ~InSteps("delay sleep")
    /\ Len(items) = 2 /\ pos = 6

(***************************************************************************)
(* C26: a batch run requests the channel listing of the catalog once, at   *)
(* batch start, and makes no listing request afterwards: processing a URL  *)
(* issues only the metadata fetch and the item-create request, never       *)
(* another read of the listing.                                            *)
(***************************************************************************)
C26_ListingReadOnce ==
    /\ listing_reads <= 1
    /\ pc = "url" => ~InSteps("read listing")
====
